---- MODULE Spec2Model ----
(***************************************************************************)
(* Authentication / authorization core of ultra-rag (src/auth):            *)
(*   - RBACManager        (rbac_manager.py)                                *)
(*   - JWTValidator       (jwt_validator.py)                               *)
(*   - APIKeyValidator    (api_key_validator.py)                           *)
(*   - DatabaseClient     (database_client.py)                             *)
(*   - AuthManager        (auth_manager.py)                                *)
(*   - AuthMiddleware     (auth_middleware.py)                             *)
(*                                                                         *)
(* Python dicts are modelled as TLA+ functions with a string domain,       *)
(* Python lists as sequences, Python sets as sets, None as the string      *)
(* "None".  Text that the code cuts apart (API keys) is a sequence of      *)
(* one-character strings.                                                  *)
(***************************************************************************)
EXTENDS Integers, Sequences, FiniteSets, TLC

VARIABLES
    roles,        \* RBACManager.roles : role name -> UserRole
    rbac_call,    \* the last RBACManager call: its arguments and what it returned
    now,          \* the clock: datetime.now(timezone.utc) / time.time()
    api_keys,     \* table api_keys (+ api_keys_owner_links) of the identity store
    initialized,  \* AuthManager._initialized
    pool,         \* DatabaseClient.pool
    current_user, \* the attribute _current_user set by the decorators
    req,          \* the calls in flight: one record per caller
    pred_call,    \* the last call of a synchronous predicate or accessor
    pools,        \* the pools asyncpg.create_pool has returned to the DatabaseClient
    mw_initialized \* AuthMiddleware._initialized

rbac_vars == <<roles, rbac_call>>
auth_vars == <<now, api_keys, initialized, pool, current_user, req, pools, mw_initialized>>
vars == <<roles, rbac_call, now, api_keys, initialized, pool, current_user, req, pred_call,
          pools, mw_initialized>>

None == "None"

\* None where a dict is expected, and a value or the exception a call ended with
NoDict == [none |-> TRUE]
Returned(v) == [value |-> v]
Raised(e) == [raised |-> e]

\* No call made yet (of an RBACManager method, of an AuthManager predicate)
NoCall == [called |-> FALSE]

\* dict.get(key, default)
Get(d, k, default) ==
    IF k \in DOMAIN d THEN d[k] ELSE default

\* x in list
InList(x, l) ==
    \E i \in 1..Len(l) : l[i] = x

RECURSIVE MaxOf(_)
\* max(iterable) of a non-empty set of integers
MaxOf(S) ==
    LET x == CHOOSE y \in S : TRUE
    IN  IF S = {x} THEN x
        ELSE LET m == MaxOf(S \ {x}) IN IF x > m THEN x ELSE m

(***************************************************************************)
(* RBACManager                                                             *)
(***************************************************************************)

\* SecurityLevel.SECRET, the highest document security level
MaxSecurityLevel == 4

UserRole(name, level, departments, security_levels, permissions) ==
    [name |-> name, level |-> level, departments |-> departments,
     security_levels |-> security_levels, permissions |-> permissions]

\* RBACManager._load_default_roles
DefaultRoles ==
    [r \in {"admin", "manager", "analyst", "viewer"} |->
        CASE r = "admin" ->
                UserRole("admin", 4, <<"*">>, <<1, 2, 3, 4>>,
                         <<"read", "write", "delete", "admin">>)
          [] r = "manager" ->
                UserRole("manager", 3, <<"engineering", "sales", "marketing">>,
                         <<1, 2, 3>>, <<"read", "write">>)
          [] r = "analyst" ->
                UserRole("analyst", 2, <<"engineering", "data">>, <<1, 2>>, <<"read">>)
          [] OTHER ->
                UserRole("viewer", 1, <<"engineering">>, <<1>>, <<"read">>)]

\* the levels of the user's roles that are in the catalog
UserLevels(catalog, user_roles) ==
    {catalog[user_roles[i]].level :
        i \in {j \in 1..Len(user_roles) : user_roles[j] \in DOMAIN catalog}}

\* can_access_document as it would be if a document at the user's own level
\* were turned down
can_access_document_below_level(catalog, user_roles, user_departments, user_id, doc) ==
    IF UserLevels(catalog, user_roles) = {} THEN Raised("ValueError")
    ELSE LET user_max_level == MaxOf(UserLevels(catalog, user_roles))
         IN  IF doc.security_level >= user_max_level THEN Returned(FALSE)
             ELSE IF ~InList("*", user_departments)
                      /\ ~InList(doc.department, user_departments) THEN Returned(FALSE)
             ELSE IF doc.allowed_roles # <<>>
                      /\ ~(\E i \in 1..Len(user_roles) :
                              InList(user_roles[i], doc.allowed_roles)) THEN Returned(FALSE)
             ELSE IF doc.allowed_users # <<>>
                      /\ ~InList(user_id, doc.allowed_users) THEN Returned(FALSE)
             ELSE Returned(TRUE)

\* RBACManager.can_access_document; max() of an empty sequence raises ValueError
can_access_document(catalog, user_roles, user_departments, user_id, doc) ==
    IF UserLevels(catalog, user_roles) = {} THEN Raised("ValueError")
    ELSE LET user_max_level == MaxOf(UserLevels(catalog, user_roles))
         IN  IF doc.security_level > user_max_level THEN Returned(FALSE)
             ELSE IF ~InList("*", user_departments)
                      /\ ~InList(doc.department, user_departments) THEN Returned(FALSE)
             ELSE IF doc.allowed_roles # <<>>
                      /\ ~(\E i \in 1..Len(user_roles) :
                              InList(user_roles[i], doc.allowed_roles)) THEN Returned(FALSE)
             ELSE IF doc.allowed_users # <<>>
                      /\ ~InList(user_id, doc.allowed_users) THEN Returned(FALSE)
             ELSE Returned(TRUE)

\* The filter text is kept as its syntax tree: [op, args] for a parenthesised
\* " OR " join and for the top level " AND " join, leaves for the comparisons.
Leaf(op, fld, val) ==
    [op |-> op, field |-> fld, val |-> val]

\* f"security_level <= {user_max_level}"
LevelLeaf(level) ==
    [op |-> "<=", field |-> "security_level", level |-> level]

\* RBACManager.build_milvus_filter
build_milvus_filter(catalog, user_roles, user_departments, user_id) ==
    IF UserLevels(catalog, user_roles) = {} THEN Raised("ValueError")
    ELSE LET user_max_level == MaxOf(UserLevels(catalog, user_roles))
             level_cond == <<LevelLeaf(user_max_level)>>
             dept_cond ==
                 IF InList("*", user_departments) THEN <<>>
                 ELSE <<[op |-> "OR",
                         args |-> [i \in 1..Len(user_departments) |->
                                     Leaf("==", "department", user_departments[i])]]>>
             role_cond ==
                 IF user_roles = <<>> THEN <<>>
                 ELSE <<[op |-> "OR",
                         args |-> [i \in 1..Len(user_roles) |->
                                     Leaf("JSON_CONTAINS", "allowed_roles", user_roles[i])]]>>
             user_cond == <<Leaf("JSON_CONTAINS", "allowed_users", user_id)>>
         IN  Returned([op |-> "AND",
                       args |-> level_cond \o dept_cond \o role_cond \o user_cond])

\* RBACManager.serialize_metadata_for_milvus: the fields the index stores
serialize_metadata_for_milvus(doc) ==
    [security_level |-> doc.security_level,
     department |-> doc.department,
     allowed_roles |-> doc.allowed_roles,
     allowed_users |-> doc.allowed_users]

\* What the index does with a leaf of the expression on one entity
EvalLeaf(e, entity) ==
    CASE e.op = "<=" -> entity[e.field] <= e.level
      [] e.op = "==" -> entity[e.field] = e.val
      [] OTHER -> InList(e.val, entity[e.field])

\* What the index does with a parenthesised OR group; "()" matches nothing
EvalGroup(e, entity) ==
    IF e.op = "OR"
    THEN \E i \in 1..Len(e.args) : EvalLeaf(e.args[i], entity)
    ELSE EvalLeaf(e, entity)

\* Whether the entity satisfies the whole expression
EvalFilter(e, entity) ==
    \A i \in 1..Len(e.args) : EvalGroup(e.args[i], entity)

\* The role definitions add_role is called with
NewRoles ==
    {UserRole("engineer", 2, <<"engineering">>, <<1, 2>>, <<"read">>),
     UserRole("viewer", 3, <<"engineering">>, <<1, 2, 3>>, <<"read">>)}

\* The role names remove_role is called with
RemovableRoles == {"admin", "viewer", "engineer"}

UserRoleLists ==
    {<<>>, <<"admin">>, <<"viewer">>, <<"engineer">>,
     <<"viewer", "engineer">>, <<"engineer", "admin">>}

UserDepartmentLists ==
    {<<>>, <<"*">>, <<"engineering">>, <<"general">>,
     <<"engineering", "general">>, <<"general", "*">>}

UserIds == {"u1", "u2"}

\* DocumentMetadata satisfying the schema (the fields access control reads)
Documents ==
    [security_level : 1..MaxSecurityLevel,
     department : {"engineering", "general"},
     allowed_roles : {<<>>, <<"viewer">>, <<"admin">>, <<"engineer", "admin">>},
     allowed_users : {<<>>, <<"u1">>, <<"u1", "u2">>}]

\* RBACManager.add_role
add_role(role) ==
    /\ roles' = [n \in DOMAIN roles \cup {role.name} |->
                    IF n = role.name THEN role ELSE roles[n]]
    /\ rbac_call' = NoCall

\* RBACManager.remove_role
remove_role(role_name) ==
    /\ role_name \in DOMAIN roles
    /\ roles' = [n \in DOMAIN roles \ {role_name} |-> roles[n]]
    /\ rbac_call' = NoCall

\* One document checked in process and through the compiled filter, once per
\* state of the catalog
CheckDocument(user_roles, user_departments, user_id, doc) ==
    /\ rbac_call' =
          [user_roles |-> user_roles, user_departments |-> user_departments,
           user_id |-> user_id, doc |-> doc,
           can_access |-> can_access_document(roles, user_roles, user_departments,
                                              user_id, doc),
           filter |-> build_milvus_filter(roles, user_roles, user_departments, user_id)]
    /\ UNCHANGED roles

AddRole ==
    \E role \in NewRoles : add_role(role)

RemoveRole ==
    \E role_name \in RemovableRoles : remove_role(role_name)

AccessCheck ==
    /\ rbac_call = NoCall
    /\ \E user_roles \in UserRoleLists, user_departments \in UserDepartmentLists,
          user_id \in UserIds, doc \in Documents :
            CheckDocument(user_roles, user_departments, user_id, doc)

(***************************************************************************)
(* Text: the API key is cut apart by the code, so it is a sequence of      *)
(* one-character strings.                                                  *)
(***************************************************************************)

\* The longest API key text the callers present
MaxKeyLen == 4

\* The characters of the key texts validate_api_key is called with: a letter,
\* the separator, white space
Chars == {"k", ":", " "}

\* str.strip() removes white space at both ends
IsSpace(c) ==
    c = " "

RECURSIVE LStrip(_)
LStrip(s) ==
    IF s # <<>> /\ IsSpace(Head(s)) THEN LStrip(Tail(s)) ELSE s

RECURSIVE RStrip(_)
RStrip(s) ==
    IF s # <<>> /\ IsSpace(s[Len(s)]) THEN RStrip(SubSeq(s, 1, Len(s) - 1)) ELSE s

Strip(s) ==
    RStrip(LStrip(s))

\* The index of the first ':' of a text that has one
FirstColon(s) ==
    CHOOSE i \in 1..Len(s) : s[i] = ":" /\ \A j \in 1..(i - 1) : s[j] # ":"

\* api_key.split(':', 1): the text before the first ':' and the text after it
SplitKeyId(s) ==
    SubSeq(s, 1, FirstColon(s) - 1)

SplitSecret(s) ==
    SubSeq(s, FirstColon(s) + 1, Len(s))

\* hashlib.sha256(secret.encode('utf-8')).hexdigest(): a digest is not the
\* text it was made of, and two texts have two digests
Sha256(secret) ==
    [sha256 |-> secret]

\* _verify_secret_hash as it would be if an empty secret were let through
verify_secret_hash_or_empty(secret, stored_hash) ==
    secret = <<>> \/ Sha256(secret) = stored_hash

\* APIKeyValidator._verify_secret_hash
verify_secret_hash(secret, stored_hash) ==
    Sha256(secret) = stored_hash

\* os.getenv('DEV_API_KEY', 'dev-api-key-12345'): a text without ':'
dev_api_key == <<"d", "e", "v">>

(***************************************************************************)
(* The identity store (PostgreSQL behind DatabaseClient)                   *)
(***************************************************************************)

\* The latest clock value
MaxClock == 2

\* int(user_id): the text of a number, or -1 where int() raises ValueError
IntOf(user_id) ==
    CASE user_id = "5" -> 5
      [] user_id = "6" -> 6
      [] user_id = "7" -> 7
      [] user_id = "8" -> 8
      [] user_id = "9" -> 9
      [] OTHER -> -1

\* str(id)
StrOf(id) ==
    CASE id = 5 -> "5"
      [] id = 6 -> "6"
      [] id = 7 -> "7"
      [] id = 8 -> "8"
      [] OTHER -> "9"

\* Table up_users with the joins get_user_by_id makes (roles, organization).
\* 7 is a confirmed user, 8 is blocked, 9 has not confirmed, 6 has the role
\* Admin and no email (NULL); there is no user 5.
up_users ==
    [id \in {6, 7, 8, 9} |->
        [id |-> id,
         username |-> CASE id = 6 -> "dave" [] id = 7 -> "alice" [] id = 8 -> "bob"
                        [] OTHER -> "carol",
         email |-> CASE id = 6 -> None [] id = 7 -> "alice@x" [] id = 8 -> "bob@x"
                     [] OTHER -> "carol@x",
         confirmed |-> id # 9,
         blocked |-> id = 8,
         roles |-> IF id = 6 THEN <<[role_name |-> "Admin", role_type |-> "admin"]>>
                   ELSE <<[role_name |-> "Authenticated", role_type |-> "authenticated"]>>]]

\* datetime values: wall clock reading, and the UTC offset of an aware value
Naive(wall) ==
    [wall |-> wall, naive |-> TRUE, utcoffset |-> 0]

Aware(wall, utcoffset) ==
    [wall |-> wall, naive |-> FALSE, utcoffset |-> utcoffset]

\* The instant an aware datetime denotes
Instant(dt) ==
    dt.wall - dt.utcoffset

\* The expiry check as it would be if a naive value were read as the time of a
\* zone one hour behind UTC
is_expired_naive_as_local(expires_at, clock) ==
    /\ expires_at # NoDict
    /\ LET aware == IF expires_at.naive THEN Aware(expires_at.wall, -1) ELSE expires_at
       IN  aware.wall - aware.utcoffset < clock

\* api_key_validator.py:72-82: whether the record's expires_at is in the past;
\* a naive value is given tzinfo=utc
is_expired(expires_at, clock) ==
    /\ expires_at # NoDict
    /\ LET aware == IF expires_at.naive THEN Aware(expires_at.wall, 0) ELSE expires_at
       IN  Instant(aware) < clock

\* The SELECT as it would be without its status = 'active' condition
select_api_key_of_any_status(table, key_id) ==
    IF key_id \in DOMAIN table
    THEN LET row == table[key_id]
             api_key_data ==
                 [id |-> row.id, key_id |-> key_id, secret_hash |-> row.secret_hash,
                  scopes |-> row.scopes, scopes_shape |-> row.scopes_shape,
                  status |-> row.status,
                  organization_id |-> row.organization_id,
                  expires_at |-> row.expires_at, last_used_at |-> row.last_used_at]
         IN  IF row.owner_link = 0 THEN api_key_data
             ELSE [k \in DOMAIN api_key_data \cup {"owner_id"} |->
                      IF k = "owner_id" THEN row.owner_link ELSE api_key_data[k]]
    ELSE NoDict

\* The SELECT of get_api_key_by_key_id: the row of the key id with
\* status = 'active', and the owner link's user_id added when there is a link
select_api_key(table, key_id) ==
    IF key_id \in DOMAIN table /\ table[key_id].status = "active"
    THEN LET row == table[key_id]
             api_key_data ==
                 [id |-> row.id, key_id |-> key_id, secret_hash |-> row.secret_hash,
                  scopes |-> row.scopes, scopes_shape |-> row.scopes_shape,
                  status |-> row.status,
                  organization_id |-> row.organization_id,
                  expires_at |-> row.expires_at, last_used_at |-> row.last_used_at]
         IN  IF row.owner_link = 0 THEN api_key_data
             ELSE [k \in DOMAIN api_key_data \cup {"owner_id"} |->
                      IF k = "owner_id" THEN row.owner_link ELSE api_key_data[k]]
    ELSE NoDict

\* The SELECTs of get_user_by_id for an id that int() accepts
select_user(id) ==
    IF id \in DOMAIN up_users THEN up_users[id] ELSE NoDict

(***************************************************************************)
(* JWTValidator                                                            *)
(***************************************************************************)

\* A bearer token as jwt.decode sees it: whether it has the three-part form,
\* the secret its signature was made with, and its claims.  The claim id is a
\* number (0: no such claim), sub is text ("": no such claim).
Token(form, signed_with, exp, id, sub, role, scopes) ==
    [form |-> form, signed_with |-> signed_with, exp |-> exp, id |-> id, sub |-> sub,
     role |-> role, scopes |-> scopes]

\* The token with the claims email and username added
WithClaims(token, email, username) ==
    [k \in DOMAIN token \cup {"email", "username"} |->
        CASE k = "email" -> email
          [] k = "username" -> username
          [] OTHER -> token[k]]

\* str.strip() on the scope texts the model uses
StripScope(scope) ==
    CASE scope = " Write " -> "Write"
      [] scope = "read " -> "read"
      [] scope = " " -> ""
      [] OTHER -> scope

\* JWTValidator._normalize_scopes on a list claim (<<>>: no claim)
normalize_scopes(scopes_claim) ==
    {StripScope(scopes_claim[i]) :
        i \in {j \in 1..Len(scopes_claim) : scopes_claim[j] # ""}}

\* A scope or scopes claim, character by character.  The claim is absent, a
\* str (text), a list of str (items), a set of str (members) or of another
\* type (a number, a dict).
AbsentClaim ==
    [shape |-> "absent", text |-> <<>>, items |-> <<>>, members |-> {}]

StrClaim(text) ==
    [shape |-> "str", text |-> text, items |-> <<>>, members |-> {}]

ListClaim(items) ==
    [shape |-> "list", text |-> <<>>, items |-> items, members |-> {}]

SetClaim(members) ==
    [shape |-> "set", text |-> <<>>, items |-> <<>>, members |-> members]

OtherClaim ==
    [shape |-> "other", text |-> <<>>, items |-> <<>>, members |-> {}]

\* text.split(','): the pieces between the commas, in order
RECURSIVE SplitCommas(_)
SplitCommas(text) ==
    IF \A i \in 1..Len(text) : text[i] # ","
    THEN <<text>>
    ELSE LET c == CHOOSE i \in 1..Len(text) :
                     text[i] = "," /\ \A j \in 1..(i - 1) : text[j] # ","
         IN  <<SubSeq(text, 1, c - 1)>> \o SplitCommas(SubSeq(text, c + 1, Len(text)))

\* bool(scopes_claim)
ClaimTruthy(scopes_claim) ==
    CASE scopes_claim.shape = "absent" -> FALSE
      [] scopes_claim.shape = "str" -> scopes_claim.text # <<>>
      [] scopes_claim.shape = "list" -> scopes_claim.items # <<>>
      [] scopes_claim.shape = "set" -> scopes_claim.members # {}
      [] OTHER -> TRUE

\* JWTValidator._normalize_scopes, character by character
normalize_scopes_text(scopes_claim) ==
    IF ~ClaimTruthy(scopes_claim) THEN {}
    ELSE IF scopes_claim.shape = "str"
    THEN {Strip(SplitCommas(scopes_claim.text)[i]) :
            i \in {j \in 1..Len(SplitCommas(scopes_claim.text)) :
                      Strip(SplitCommas(scopes_claim.text)[j]) # <<>>}}
    ELSE IF scopes_claim.shape = "list"
    THEN {Strip(scopes_claim.items[i]) :
            i \in {j \in 1..Len(scopes_claim.items) : scopes_claim.items[j] # <<>>}}
    ELSE {}

\* What jwt.decode raises for the token, "" when it returns the payload
jwt_decode_error(token, clock) ==
    IF token.form # "jwt" THEN "DecodeError"
    ELSE IF token.signed_with # "JWT_SECRET" THEN "InvalidSignatureError"
    ELSE IF token.exp <= clock THEN "ExpiredSignatureError"
    ELSE ""

\* What JWTValidator.validate_token writes to the log, "" when nothing
validate_token_log(token, clock) ==
    CASE jwt_decode_error(token, clock) = "ExpiredSignatureError" -> "JWT token expired"
      [] jwt_decode_error(token, clock) # "" -> "Invalid JWT token"
      [] token.id = 0 /\ token.sub = "" -> "JWT token missing subject/id"
      [] OTHER -> ""

\* JWTValidator.validate_token: the claims dict, or None
validate_token(token, clock) ==
    IF validate_token_log(token, clock) # "" THEN NoDict
    ELSE [user_id |-> IF token.id # 0 THEN StrOf(token.id) ELSE token.sub,
          role |-> token.role,
          scopes |-> normalize_scopes(token.scopes),
          organization_id |-> None,
          email |-> Get(token, "email", None),
          username |-> Get(token, "username", None),
          iat |-> 0,
          exp |-> token.exp]

(***************************************************************************)
(* APIKeyValidator: the parts that run without waiting                     *)
(***************************************************************************)

\* os.getenv('DEV_SCOPES', 'read,write,admin') split at ',' and stripped
dev_scopes == {"read", "write", "admin"}

\* api_key_validator.py:42-50: the principal of the developer key
dev_principal ==
    [user_id |-> "dev-user", role |-> "super_admin", scopes |-> dev_scopes,
     organization_id |-> "dev-org", is_dev |-> TRUE]

\* APIKeyValidator._get_default_scopes_for_role
get_default_scopes_for_role(role_name) ==
    CASE role_name = "super_admin" -> {"read", "write", "admin", "delete"}
      [] role_name = "admin" -> {"read", "write", "admin"}
      [] role_name = "developer" -> {"read", "write"}
      [] OTHER -> {"read"}

\* APIKeyValidator._get_scopes_from_api_key.  The value of the scopes column
\* is api_key_data.scopes read by api_key_data.scopes_shape: "list", a list
\* of the items (<<>>: the empty list, or NULL); "json_array", a str that
\* json.loads parses to the list of the items; "json_value", a str that
\* json.loads parses to something that is not a list; "text", a str that
\* json.loads rejects, the items being its pieces between the commas (<<>>:
\* the empty str).
get_scopes_from_api_key(api_key_data, user_data) ==
    LET api_scopes == api_key_data.scopes
        shape == api_key_data.scopes_shape
        of_list == {StripScope(api_scopes[i]) :
                      i \in {j \in 1..Len(api_scopes) : api_scopes[j] # ""}}
        of_pieces == {StripScope(api_scopes[i]) :
                        i \in {j \in 1..Len(api_scopes) : StripScope(api_scopes[j]) # ""}}
        of_role == get_default_scopes_for_role(
                      Get(api_key_data, "role", Get(user_data, "role_name", "viewer")))
    IN  CASE shape = "list" -> IF api_scopes # <<>> THEN of_list ELSE of_role
          [] shape = "json_array" -> of_list
          [] shape = "json_value" -> of_role
          [] OTHER -> IF api_scopes # <<>> THEN of_pieces ELSE of_role

\* api_key_validator.py:101-110: the dict of a validated database key
key_principal(key_id, api_key_data, user_data) ==
    [user_id |-> StrOf(user_data.id),
     role |-> Get(api_key_data, "role", Get(user_data, "role_name", "authenticated")),
     scopes |-> get_scopes_from_api_key(api_key_data, user_data),
     organization_id |->
        IF api_key_data.organization_id # None THEN api_key_data.organization_id
        ELSE Get(user_data, "organization_id", None),
     email |-> user_data.email,
     username |-> user_data.username,
     api_key_id |-> key_id,
     is_dev |-> FALSE]

(***************************************************************************)
(* AuthManager: the synchronous predicates                                 *)
(***************************************************************************)

\* a or b, for texts
OrElse(a, b) ==
    IF a # None /\ a # "" THEN a ELSE b

\* check_permissions as it would be if one of the required scopes sufficed
check_permissions_any_scope(user_data, required_scopes) ==
    /\ user_data # NoDict
    /\ \/ required_scopes = {}
       \/ required_scopes \cap Get(user_data, "scopes", {}) # {}

\* AuthManager.check_permissions
check_permissions(user_data, required_scopes) ==
    /\ user_data # NoDict
    /\ required_scopes \subseteq Get(user_data, "scopes", {})

\* AuthManager.check_role
check_role(user_data, required_roles) ==
    /\ user_data # NoDict
    /\ Get(user_data, "role", "") \in required_roles

\* check_organization as it would be if the role admin passed like super_admin
check_organization_admins_pass(user_data, required_org_id) ==
    IF user_data = NoDict THEN FALSE
    ELSE IF Get(user_data, "role", None) \in {"super_admin", "admin"} THEN TRUE
    ELSE Get(user_data, "organization_id", None) = required_org_id

\* AuthManager.check_organization
check_organization(user_data, required_org_id) ==
    IF user_data = NoDict THEN FALSE
    ELSE IF Get(user_data, "role", None) = "super_admin" THEN TRUE
    ELSE Get(user_data, "organization_id", None) = required_org_id

\* is_authenticated as it would be if administrators were never held to be
\* blocked
is_authenticated_admins_exempt(user_data) ==
    IF user_data = NoDict THEN FALSE
    ELSE IF Get(user_data, "blocked", FALSE) /\ Get(user_data, "role", "") # "admin"
         THEN FALSE
    ELSE IF Get(user_data, "auth_method", None) = "jwt" /\ ~Get(user_data, "confirmed", TRUE)
         THEN FALSE
    ELSE TRUE

\* AuthManager.is_authenticated
is_authenticated(user_data) ==
    IF user_data = NoDict THEN FALSE
    ELSE IF Get(user_data, "blocked", FALSE) THEN FALSE
    ELSE IF Get(user_data, "auth_method", None) = "jwt" /\ ~Get(user_data, "confirmed", TRUE)
         THEN FALSE
    ELSE TRUE

\* jwt_principal as it would be if the claims of the token won over the
\* values of the store
jwt_principal_claims_first(jwt_data, user_data) ==
    [k \in DOMAIN jwt_data \cup {"confirmed", "blocked", "auth_method"} |->
        CASE k = "email" -> OrElse(jwt_data.email, Get(user_data, "email", None))
          [] k = "username" -> OrElse(jwt_data.username, Get(user_data, "username", None))
          [] k = "confirmed" -> Get(user_data, "confirmed", TRUE)
          [] k = "blocked" -> Get(user_data, "blocked", FALSE)
          [] k = "auth_method" -> "jwt"
          [] OTHER -> jwt_data[k]]

\* auth_manager.py:87-94: the JWT claims merged with the user row
jwt_principal(jwt_data, user_data) ==
    [k \in DOMAIN jwt_data \cup {"confirmed", "blocked", "auth_method"} |->
        CASE k = "email" -> OrElse(Get(user_data, "email", None), jwt_data.email)
          [] k = "username" -> OrElse(Get(user_data, "username", None), jwt_data.username)
          [] k = "confirmed" -> Get(user_data, "confirmed", TRUE)
          [] k = "blocked" -> Get(user_data, "blocked", FALSE)
          [] k = "auth_method" -> "jwt"
          [] OTHER -> jwt_data[k]]

\* auth_manager.py:115-125: what _try_api_key_auth makes of the validator's
\* dict.  The dict has no 'owner_id', so no user row is fetched here.
api_key_principal(api_key_data) ==
    [k \in DOMAIN api_key_data \cup {"username", "email", "auth_method"} |->
        CASE k = "username" -> "unknown"
          [] k = "email" -> ""
          [] k = "auth_method" -> "api_key"
          [] OTHER -> api_key_data[k]]

(***************************************************************************)
(* AuthMiddleware                                                          *)
(***************************************************************************)

\* AuthMiddleware._create_error_response
create_error_response(message, status_code) ==
    [error |-> [code |-> status_code, message |-> message]]

\* The dict validate_request returns
ValidationResult(valid, user_data, error) ==
    [valid |-> valid, user_data |-> user_data, error |-> error]

\* auth_middleware.py:179-181: getattr(self, '_current_user', None)
get_current_user ==
    current_user

\* auth_middleware.py:188-193
has_scope(scope) ==
    IF get_current_user = NoDict THEN FALSE
    ELSE check_permissions(get_current_user, {scope})

\* auth_middleware.py:195-200
has_role(role) ==
    IF get_current_user = NoDict THEN FALSE
    ELSE check_role(get_current_user, {role})

\* auth_middleware.py:202-207
is_admin ==
    IF get_current_user = NoDict THEN FALSE
    ELSE check_role(get_current_user, {"admin", "super_admin"})

(***************************************************************************)
(* The requests                                                            *)
(***************************************************************************)

\* The callers that may have a call in flight on the one middleware object
Callers == {"r1", "r2"}

\* A header value: "Bearer <token>", "ApiKey <key>", or a bare key text
NoToken == Token("", "", 0, 0, "", "", <<>>)
Bearer(token) == [scheme |-> "Bearer", token |-> token, key |-> <<>>]
ApiKey(key) == [scheme |-> "ApiKey", token |-> NoToken, key |-> key]
Bare(key) == [scheme |-> "", token |-> NoToken, key |-> key]
NoHeader == [scheme |-> "None", token |-> NoToken, key |-> <<>>]

\* headers.get(name)
HeaderGet(headers, name) ==
    IF \E h \in headers : h.name = name
    THEN (CHOOSE h \in headers : h.name = name).value
    ELSE NoHeader

\* headers.get('authorization') or headers.get('Authorization')
AuthorizationHeader(headers) ==
    IF HeaderGet(headers, "authorization") # NoHeader
    THEN HeaderGet(headers, "authorization")
    ELSE HeaderGet(headers, "Authorization")

\* auth_manager.py:67-73: the bearer token of the request, NoToken if none
bearer_token(headers) ==
    IF AuthorizationHeader(headers).scheme = "Bearer"
    THEN AuthorizationHeader(headers).token
    ELSE NoToken

\* auth_manager.py:99-105: the API key text of the request, <<>> if none
presented_api_key(headers) ==
    IF HeaderGet(headers, "X-API-Key").key # <<>>
    THEN HeaderGet(headers, "X-API-Key").key
    ELSE IF AuthorizationHeader(headers).scheme = "ApiKey"
    THEN Strip(AuthorizationHeader(headers).key)
    ELSE <<>>

Pending == [pending |-> TRUE]

\* A caller that has not called yet
IdleRequest ==
    [pc |-> "idle", kind |-> "", headers |-> {}, api_key |-> <<>>,
     required_scopes |-> {}, required_roles |-> {},
     jwt_data |-> NoDict, api_key_data |-> NoDict, key_id |-> <<>>, secret |-> <<>>,
     user |-> NoDict, result |-> Pending, log |-> {}, ran |-> 0, seen |-> NoDict,
     key_validator_calls |-> 0, store_errors |-> 0, store_calls |-> 0]

\* The caller's record after one more line of the diagnostic log
Logged(r, message) ==
    [r EXCEPT !.log = @ \cup {message}]

\* The caller's record after one more call of a DatabaseClient method
StoreCalled(r) ==
    [r EXCEPT !.store_calls = @ + 1]

\* An exception leaves authenticate_request: validate_request catches it
\* (auth_middleware.py:171-177), the require_auth and optional_auth wrappers
\* and a direct caller of authenticate_request do not
Throw(p, r, exc) ==
    /\ req' = [req EXCEPT ![p] =
                 [r EXCEPT !.pc = "done",
                           !.result =
                               IF r.kind = "validate_request"
                               THEN Returned(ValidationResult(FALSE, NoDict,
                                                              "Validation error: connection refused"))
                               ELSE Raised(exc)]]
    /\ UNCHANGED current_user

\* auth_middleware.py:56-69: the rejection of the require_auth wrapper, NoDict
\* when the request passes
guard_rejection(user_data, required_scopes, required_roles) ==
    IF user_data = NoDict
    THEN create_error_response("Authentication required", 401)
    ELSE IF ~is_authenticated(user_data)
    THEN create_error_response("Authentication failed", 401)
    ELSE IF required_scopes # {} /\ ~check_permissions(user_data, required_scopes)
    THEN create_error_response("Insufficient permissions", 403)
    ELSE IF required_roles # {} /\ ~check_role(user_data, required_roles)
    THEN create_error_response("Insufficient role", 403)
    ELSE NoDict

\* auth_middleware.py:142-169: what validate_request returns
validation_result(user_data, required_scopes) ==
    IF user_data = NoDict
    THEN ValidationResult(FALSE, NoDict, "Authentication required")
    ELSE IF ~is_authenticated(user_data)
    THEN ValidationResult(FALSE, NoDict, "Authentication failed")
    ELSE IF required_scopes # {} /\ ~check_permissions(user_data, required_scopes)
    THEN ValidationResult(FALSE, user_data, "Insufficient permissions")
    ELSE ValidationResult(TRUE, user_data, None)

\* AuthReturn as it would be if the rejection named the line the validators
\* logged
AuthReturnNamingReason(p, r, user_data) ==
    IF r.kind = "require_auth"
          /\ guard_rejection(user_data, r.required_scopes, r.required_roles) = NoDict
    THEN /\ current_user' = user_data
         /\ req' = [req EXCEPT ![p] =
                      [r EXCEPT !.pc = "operation", !.user = user_data, !.ran = @ + 1]]
    ELSE /\ UNCHANGED current_user
         /\ req' = [req EXCEPT ![p] =
                      [r EXCEPT !.pc = "done",
                                !.user = user_data,
                                !.result =
                                    IF user_data = NoDict /\ r.log # {}
                                    THEN Returned(create_error_response(
                                                    CHOOSE m \in r.log : TRUE, 401))
                                    ELSE Returned(user_data)]]

\* authenticate_request returns user_data (NoDict: None) to its caller, which
\* runs on to its next await: a direct caller and validate_request end; the
\* require_auth wrapper rejects, or stores the principal in _current_user and
\* starts the wrapped operation, which runs up to its first await; the
\* optional_auth wrapper (auth_middleware.py:104-108) stores the principal or
\* None and starts the wrapped operation
AuthReturn(p, r, user_data) ==
    IF r.kind = "optional_auth"
    THEN /\ current_user' = IF user_data # NoDict /\ is_authenticated(user_data)
                            THEN user_data ELSE NoDict
         /\ req' = [req EXCEPT ![p] =
                      [r EXCEPT !.pc = "operation", !.user = user_data, !.ran = @ + 1]]
    ELSE IF r.kind = "require_auth"
          /\ guard_rejection(user_data, r.required_scopes, r.required_roles) = NoDict
    THEN /\ current_user' = user_data
         /\ req' = [req EXCEPT ![p] =
                      [r EXCEPT !.pc = "operation", !.user = user_data, !.ran = @ + 1]]
    ELSE /\ UNCHANGED current_user
         /\ req' = [req EXCEPT ![p] =
                      [r EXCEPT !.pc = "done",
                                !.user = user_data,
                                !.result =
                                    CASE r.kind = "require_auth" ->
                                            Returned(guard_rejection(user_data,
                                                        r.required_scopes, r.required_roles))
                                      [] r.kind = "validate_request" ->
                                            Returned(validation_result(user_data,
                                                                       r.required_scopes))
                                      [] OTHER -> Returned(user_data)]]

\* validate_api_key returns api_key_data (NoDict: None): to its direct caller,
\* or to _try_api_key_auth (auth_manager.py:111-125)
KeyReturn(p, r, api_key_data) ==
    IF r.kind = "validate_api_key"
    THEN /\ req' = [req EXCEPT ![p] =
                      [r EXCEPT !.pc = "done", !.result = Returned(api_key_data)]]
         /\ UNCHANGED current_user
    ELSE AuthReturn(p, r, IF api_key_data = NoDict THEN NoDict
                          ELSE api_key_principal(api_key_data))

\* A call starts: the wrapper has taken the headers from the context
Start(p, kind, headers, api_key, required_scopes, required_roles) ==
    /\ req[p].pc = "idle"
    /\ req' = [req EXCEPT ![p] =
                 [@ EXCEPT !.pc = IF kind = "validate_api_key" THEN "validate_api_key"
                                  ELSE "authenticate",
                           !.kind = kind, !.headers = headers, !.api_key = api_key,
                           !.required_scopes = required_scopes,
                           !.required_roles = required_roles]]
    /\ UNCHANGED <<now, api_keys, initialized, pool, current_user>>
    /\ UNCHANGED <<rbac_vars, pred_call, pools, mw_initialized>>

\* The pools one DatabaseClient is given at most
MaxPools == 3

\* max_size of the pool (database_client.py:55)
max_size == 10

\* A pool as create_pool returns it: open, with held connections handed out
\* to the inflight operations that acquired one
NewPool ==
    [open |-> TRUE, held |-> 0, inflight |-> 0]

\* auth_manager.py:49-50 and 30: authenticate_request looks at _initialized
CheckInitialized(p) ==
    /\ req[p].pc = "authenticate"
    /\ req' = [req EXCEPT ![p].pc = IF initialized THEN "try_jwt" ELSE "create_pool"]
    /\ UNCHANGED <<now, api_keys, initialized, pool, current_user>>
    /\ UNCHANGED <<rbac_vars, pred_call, pools, mw_initialized>>

\* database_client.py:45-61, auth_manager.py:31-32 and auth_middleware.py:30:
\* create_pool returns and the pool and _initialized are set (that of the
\* middleware too when its initialize made the call), or it raises and
\* initialize re-raises
CreatePool(p) ==
    /\ req[p].pc = "create_pool"
    /\ Len(pools) < MaxPools
    /\ \E ok \in BOOLEAN :
          IF ok
          THEN /\ pool' = Len(pools) + 1
               /\ pools' = Append(pools, NewPool)
               /\ initialized' = TRUE
               /\ IF req[p].kind = "initialize"
                  THEN /\ mw_initialized' = TRUE
                       /\ req' = [req EXCEPT ![p] =
                                    [Logged(StoreCalled(@), "AuthMiddleware initialized")
                                        EXCEPT !.pc = "done", !.result = Returned(None)]]
                  ELSE /\ UNCHANGED mw_initialized
                       /\ req' = [req EXCEPT ![p] = [StoreCalled(@) EXCEPT !.pc = "try_jwt"]]
               /\ UNCHANGED current_user
          ELSE /\ Throw(p, [Logged(StoreCalled(req[p]), "Failed to initialize database pool")
                              EXCEPT !.store_errors = @ + 1], "ConnectionError")
               /\ UNCHANGED <<pool, pools, initialized, mw_initialized>>
    /\ UNCHANGED <<now, api_keys>>
    /\ UNCHANGED <<rbac_vars, pred_call>>

\* TryJwt as it would be if a token that does not verify ended the request
\* without the key path
TryJwtOrReject(p) ==
    /\ req[p].pc = "try_jwt"
    /\ LET r == req[p]
           token == bearer_token(r.headers)
       IN  IF token.form = ""
           THEN /\ req' = [req EXCEPT ![p] = [r EXCEPT !.pc = "try_api_key"]]
                /\ UNCHANGED current_user
           ELSE IF validate_token(token, now) = NoDict
           THEN AuthReturn(p, Logged(r, validate_token_log(token, now)), NoDict)
           ELSE /\ req' = [req EXCEPT ![p] =
                             [r EXCEPT !.pc = "jwt_user",
                                       !.jwt_data = validate_token(token, now)]]
                /\ UNCHANGED current_user
    /\ UNCHANGED <<now, api_keys, initialized, pool>>
    /\ UNCHANGED <<rbac_vars, pred_call, pools, mw_initialized>>

\* auth_manager.py:65-78: _try_jwt_auth up to its await
TryJwt(p) ==
    /\ req[p].pc = "try_jwt"
    /\ LET r == req[p]
           token == bearer_token(r.headers)
       IN  req' = [req EXCEPT ![p] =
              IF token.form = "" THEN [r EXCEPT !.pc = "try_api_key"]
              ELSE IF validate_token(token, now) = NoDict
              THEN [Logged(r, validate_token_log(token, now)) EXCEPT !.pc = "try_api_key"]
              ELSE [r EXCEPT !.pc = "jwt_user", !.jwt_data = validate_token(token, now)]]
    /\ UNCHANGED <<now, api_keys, initialized, pool, current_user>>
    /\ UNCHANGED <<rbac_vars, pred_call, pools, mw_initialized>>

\* DatabaseClient.get_user_by_id on a pool: the row with its joins, or None
\* when there is no row, when int(user_id) raises or when the query fails
get_user_by_id(id, ok) ==
    IF ok /\ id # -1 THEN select_user(id) ELSE NoDict

\* auth_manager.py:81-94: get_user_by_id returns to _try_jwt_auth
JwtUserLookup(p) ==
    /\ req[p].pc = "jwt_user"
    /\ \E ok \in BOOLEAN :
          LET r0 == StoreCalled(req[p])
              r == IF ok THEN r0
                   ELSE [Logged(r0, "Error fetching user") EXCEPT !.store_errors = @ + 1]
              user_data == get_user_by_id(IntOf(r.jwt_data.user_id), ok)
          IN  IF user_data = NoDict
              THEN /\ req' = [req EXCEPT ![p] =
                                [Logged(r, "JWT user not found in database")
                                    EXCEPT !.pc = "try_api_key"]]
                   /\ UNCHANGED current_user
              ELSE AuthReturn(p, r, jwt_principal(r.jwt_data, user_data))
    /\ UNCHANGED <<now, api_keys, initialized, pool>>
    /\ UNCHANGED <<rbac_vars, pred_call, pools, mw_initialized>>

\* ValidateKey as it would be if the format of the key were checked before
\* the key is compared with the dev key
ValidateKeyFormatFirst(p) ==
    /\ req[p].pc \in {"try_api_key", "validate_api_key"}
    /\ LET r0 == req[p]
           presented == IF r0.kind = "validate_api_key" THEN r0.api_key
                        ELSE presented_api_key(r0.headers)
           r == [r0 EXCEPT !.key_validator_calls = @ + 1]
           api_key == Strip(presented)
       IN  IF r0.kind # "validate_api_key" /\ presented = <<>>
           THEN AuthReturn(p, r0, NoDict)
           ELSE IF api_key = <<>>
           THEN KeyReturn(p, r, NoDict)
           ELSE IF ~InList(":", api_key)
           THEN KeyReturn(p, Logged(r, "Invalid API key format"), NoDict)
           ELSE IF api_key = dev_api_key
           THEN KeyReturn(p, Logged(r, "Using dev API key"), dev_principal)
           ELSE /\ req' = [req EXCEPT ![p] =
                             [r EXCEPT !.pc = "key_lookup",
                                       !.key_id = SplitKeyId(api_key),
                                       !.secret = SplitSecret(api_key)]]
                /\ UNCHANGED current_user
    /\ UNCHANGED <<now, api_keys, initialized, pool>>
    /\ UNCHANGED <<rbac_vars, pred_call, pools, mw_initialized>>

\* auth_manager.py:96-111 and api_key_validator.py:31-63: _try_api_key_auth
\* and validate_api_key up to the await of get_api_key_by_key_id
ValidateKey(p) ==
    /\ req[p].pc \in {"try_api_key", "validate_api_key"}
    /\ LET r0 == req[p]
           presented == IF r0.kind = "validate_api_key" THEN r0.api_key
                        ELSE presented_api_key(r0.headers)
           r == [r0 EXCEPT !.key_validator_calls = @ + 1]
           api_key == Strip(presented)
       IN  IF r0.kind # "validate_api_key" /\ presented = <<>>
           THEN AuthReturn(p, r0, NoDict)
           ELSE IF api_key = <<>>
           THEN KeyReturn(p, r, NoDict)
           ELSE IF api_key = dev_api_key
           THEN KeyReturn(p, Logged(r, "Using dev API key"), dev_principal)
           ELSE IF ~InList(":", api_key)
           THEN KeyReturn(p, Logged(r, "Invalid API key format"), NoDict)
           ELSE /\ req' = [req EXCEPT ![p] =
                             [r EXCEPT !.pc = "key_lookup",
                                       !.key_id = SplitKeyId(api_key),
                                       !.secret = SplitSecret(api_key)]]
                /\ UNCHANGED current_user
    /\ UNCHANGED <<now, api_keys, initialized, pool>>
    /\ UNCHANGED <<rbac_vars, pred_call, pools, mw_initialized>>

\* DatabaseClient.get_api_key_by_key_id on a pool: the row, or None when
\* there is no active row or when the query fails
get_api_key_by_key_id(table, key_id, ok) ==
    IF ok THEN select_api_key(table, key_id) ELSE NoDict

\* api_key_validator.py:66-87: get_api_key_by_key_id returns (or, without a
\* pool, raises RuntimeError into the validator's except), then the expiry
\* and the secret are checked
KeyLookup(p) ==
    /\ req[p].pc = "key_lookup"
    /\ \E ok \in BOOLEAN :
          LET r0 == StoreCalled(req[p])
              r == IF ok THEN r0
                   ELSE [Logged(r0, "Error fetching API key") EXCEPT !.store_errors = @ + 1]
              api_key_data == get_api_key_by_key_id(api_keys, r.key_id, ok)
          IN  IF pool = 0
              THEN KeyReturn(p, Logged(r0, "API key validation error"), NoDict)
              ELSE IF api_key_data = NoDict
              THEN KeyReturn(p, Logged(r, "API key not found"), NoDict)
              ELSE IF is_expired(api_key_data.expires_at, now)
              THEN KeyReturn(p, Logged(r, "API key expired"), NoDict)
              ELSE IF ~verify_secret_hash(r.secret, api_key_data.secret_hash)
              THEN KeyReturn(p, Logged(r, "Invalid API key secret"), NoDict)
              ELSE /\ req' = [req EXCEPT ![p] =
                                [r EXCEPT !.pc = "key_touch", !.api_key_data = api_key_data]]
                   /\ UNCHANGED current_user
    /\ UNCHANGED <<now, api_keys, initialized, pool>>
    /\ UNCHANGED <<rbac_vars, pred_call, pools, mw_initialized>>

\* KeyTouch as it would be if update_api_key_last_used let the failure of
\* its UPDATE out into the validator's except
KeyTouchOrReject(p) ==
    /\ req[p].pc = "key_touch"
    /\ \E ok \in BOOLEAN :
          IF ok
          THEN /\ api_keys' = [api_keys EXCEPT ![req[p].key_id].last_used_at = now]
               /\ req' = [req EXCEPT ![p] = [StoreCalled(@) EXCEPT !.pc = "key_owner"]]
               /\ UNCHANGED current_user
          ELSE /\ UNCHANGED api_keys
               /\ KeyReturn(p, [Logged(StoreCalled(req[p]), "API key validation error")
                                   EXCEPT !.store_errors = @ + 1], NoDict)
    /\ UNCHANGED <<now, initialized, pool>>
    /\ UNCHANGED <<rbac_vars, pred_call, pools, mw_initialized>>

\* DatabaseClient.update_api_key_last_used (api_key_validator.py:90): the
\* UPDATE runs, or fails and is only logged
KeyTouch(p) ==
    /\ req[p].pc = "key_touch"
    /\ \E ok \in BOOLEAN :
          IF ok
          THEN /\ api_keys' = [api_keys EXCEPT ![req[p].key_id].last_used_at = now]
               /\ req' = [req EXCEPT ![p] = [StoreCalled(@) EXCEPT !.pc = "key_owner"]]
          ELSE /\ UNCHANGED api_keys
               /\ req' = [req EXCEPT ![p] =
                            [Logged(StoreCalled(req[p]), "Error updating API key last_used_at")
                                EXCEPT !.pc = "key_owner", !.store_errors = @ + 1]]
    /\ UNCHANGED <<now, initialized, pool, current_user>>
    /\ UNCHANGED <<rbac_vars, pred_call, pools, mw_initialized>>

\* api_key_validator.py:93-114: the owner's row is fetched (a row without an
\* owner link raises KeyError into the except) and the dict is built
KeyOwner(p) ==
    /\ req[p].pc = "key_owner"
    /\ \E ok \in BOOLEAN :
          LET r0 == StoreCalled(req[p])
              r == IF ok THEN r0
                   ELSE [Logged(r0, "Error fetching user") EXCEPT !.store_errors = @ + 1]
          IN  IF "owner_id" \notin DOMAIN r0.api_key_data
              THEN KeyReturn(p, Logged(req[p], "API key validation error"), NoDict)
              ELSE IF get_user_by_id(r0.api_key_data.owner_id, ok) = NoDict
              THEN KeyReturn(p, Logged(r, "User not found for API key"), NoDict)
              ELSE KeyReturn(p, r, key_principal(r.key_id, r.api_key_data,
                                    get_user_by_id(r0.api_key_data.owner_id, ok)))
    /\ UNCHANGED <<now, api_keys, initialized, pool>>
    /\ UNCHANGED <<rbac_vars, pred_call, pools, mw_initialized>>

\* The wrapped operation resumes after its await, asks get_current_user
\* (auth_middleware.py:179-181) and returns
OperationResume(p) ==
    /\ req[p].pc = "operation"
    /\ req' = [req EXCEPT ![p] =
                 [@ EXCEPT !.pc = "done", !.seen = current_user,
                           !.result = Returned([operation |-> "returned"])]]
    /\ UNCHANGED <<now, api_keys, initialized, pool, current_user>>
    /\ UNCHANGED <<rbac_vars, pred_call, pools, mw_initialized>>

\* One step of caller p after its call has started
Step(p) ==
    \/ CheckInitialized(p)
    \/ CreatePool(p)
    \/ TryJwt(p)
    \/ JwtUserLookup(p)
    \/ ValidateKey(p)
    \/ KeyLookup(p)
    \/ KeyTouch(p)
    \/ KeyOwner(p)
    \/ OperationResume(p)

(***************************************************************************)
(* The store's rows and the credentials the callers present                *)
(***************************************************************************)

\* A row of api_keys with its owner link (0: no link); last_used_at -1 is NULL
KeyRow(status, expires_at, secret, owner_link, scopes) ==
    [id |-> 1, status |-> status, expires_at |-> expires_at,
     secret_hash |-> Sha256(secret), owner_link |-> owner_link, scopes |-> scopes,
     scopes_shape |-> "list", organization_id |-> None, last_used_at |-> -1]

\* The row with a str in its scopes column
WithScopesText(row, shape, items) ==
    [row EXCEPT !.scopes_shape = shape, !.scopes = items]

\* The key id of the one row the table may hold, and the secret issued with it
TheKeyId ==
    <<"k">>

TheSecret ==
    <<"s">>

\* The table with the row under TheKeyId
KeyTable(row) ==
    [key_id \in {TheKeyId} |-> row]

\* The empty table
NoKeys ==
    [key_id \in {} |-> KeyRow("", NoDict, <<>>, 0, <<>>)]

\* Tokens signed with JWT_SECRET that outlive the run
GoodToken(id, sub, role, scopes) ==
    Token("jwt", "JWT_SECRET", MaxClock + 1, id, sub, role, scopes)

\* The bearer tokens presented
Tokens ==
    {GoodToken(7, "", "admin", <<"read", "write">>),
     GoodToken(0, "7", "authenticated", <<>>),
     GoodToken(8, "", "admin", <<"read", "write", "admin">>),
     GoodToken(9, "", "authenticated", <<"read">>),
     GoodToken(5, "", "admin", <<"read">>),
     GoodToken(0, "alice", "admin", <<"read">>),
     GoodToken(0, "", "admin", <<"read">>),
     GoodToken(7, "", "authenticated", <<" Write ", "read ", " ">>),
     WithClaims(GoodToken(7, "", "admin", <<"read">>), "eve@claim", "eve"),
     WithClaims(GoodToken(6, "", "admin", <<"read">>), "dave@claim", "dave2"),
     Token("jwt", "JWT_SECRET", 1, 7, "", "admin", <<"read", "write">>),
     Token("jwt", "other", MaxClock + 1, 7, "", "admin", <<"read", "write">>),
     Token("garbage", "", 0, 0, "", "", <<>>)}

\* The key texts presented through the headers
KeyTexts ==
    {<<"k", ":", "s">>, <<"k", ":", "k">>, <<"k", "s">>, <<"s", ":", "s">>,
     <<" ">>, dev_api_key}

\* The header sets of the requests
HeaderSets ==
    {{}} \cup {{[name |-> "Authorization", value |-> Bearer(t)]} : t \in Tokens}
         \cup {{[name |-> "X-API-Key", value |-> Bare(k)]} : k \in KeyTexts}
         \cup {{[name |-> "authorization", value |-> ApiKey(k)]} : k \in KeyTexts}
         \cup {{[name |-> "Authorization", value |-> Bearer(t)],
                [name |-> "X-API-Key", value |-> Bare(k)]} : t \in Tokens, k \in KeyTexts}

\* The rows of the table in the runs through the middleware
KeyRows ==
    {KeyRow("active", NoDict, TheSecret, 7, <<"read", "write">>),
     KeyRow("active", NoDict, TheSecret, 8, <<>>),
     KeyRow("active", NoDict, TheSecret, 5, <<"read">>),
     KeyRow("active", NoDict, TheSecret, 0, <<"read">>),
     KeyRow("active", NoDict, TheSecret, 9, <<"read ", " ">>),
     KeyRow("active", Naive(1), TheSecret, 7, <<"read">>),
     KeyRow("active", Aware(2, 1), TheSecret, 7, <<"read">>),
     KeyRow("revoked", NoDict, TheSecret, 7, <<"read", "write">>)}

\* The scopes and roles the guards require ({}: none required)
RequiredScopes == {{}, {"read"}, {"admin"}}
RequiredRoles == {{}, {"admin", "super_admin"}}

\* The state after AuthMiddleware() on some store at some time; no call yet
InitAuth(tables, pool_handles) ==
    /\ now \in 0..MaxClock
    /\ api_keys \in tables
    /\ initialized = FALSE
    /\ pool \in pool_handles
    /\ pools = IF pool = 0 THEN <<>> ELSE <<NewPool>>
    /\ mw_initialized = FALSE
    /\ current_user = NoDict
    /\ req = [p \in Callers |-> IdleRequest]
    /\ roles = DefaultRoles
    /\ rbac_call = NoCall
    /\ pred_call = NoCall

\* AuthManager.authenticate_request is called
CallAuthenticate(p) ==
    /\ req[p].pc = "idle"
    /\ \E headers \in HeaderSets :
          Start(p, "authenticate_request", headers, <<>>, {}, {})

\* A method wrapped by require_auth is called
CallGuarded(p) ==
    /\ req[p].pc = "idle"
    /\ \E headers \in HeaderSets, scopes \in RequiredScopes, rs \in RequiredRoles :
          Start(p, "require_auth", headers, <<>>, scopes, rs)

\* A method wrapped by optional_auth is called
CallOptional(p) ==
    /\ req[p].pc = "idle"
    /\ \E headers \in HeaderSets :
          Start(p, "optional_auth", headers, <<>>, {}, {})

\* AuthMiddleware.validate_request is called
CallValidate(p) ==
    /\ req[p].pc = "idle"
    /\ \E headers \in HeaderSets, scopes \in RequiredScopes :
          Start(p, "validate_request", headers, <<>>, scopes, {})

\* One caller, one call through the manager or the middleware
Init ==
    InitAuth({NoKeys} \cup {KeyTable(row) : row \in KeyRows}, {0})

Next ==
    \/ CallAuthenticate("r1")
    \/ CallGuarded("r1")
    \/ CallOptional("r1")
    \/ CallValidate("r1")
    \/ Step("r1")

Spec == Init /\ [][Next]_vars

(***************************************************************************)
(* Calls through AuthManager and AuthMiddleware: the properties            *)
(***************************************************************************)

\* The call of caller p has ended
Done(p) ==
    req[p].pc = "done"

\* The request's bearer token verifies and its subject has a row in up_users
ValidBearer(r) ==
    /\ bearer_token(r.headers).form # ""
    /\ validate_token(bearer_token(r.headers), now) # NoDict
    /\ IntOf(validate_token(bearer_token(r.headers), now).user_id) \in DOMAIN up_users

\* The key text names an active, unexpired row whose hash is the digest of the
\* text's secret and whose owner has a row in up_users
ValidStoreKey(text) ==
    /\ InList(":", text)
    /\ select_api_key(api_keys, SplitKeyId(text)) # NoDict
    /\ LET row == select_api_key(api_keys, SplitKeyId(text))
       IN  /\ ~is_expired(row.expires_at, now)
           /\ row.secret_hash = Sha256(SplitSecret(text))
           /\ "owner_id" \in DOMAIN row
           /\ row.owner_id \in DOMAIN up_users

\* The request's X-API-Key header carries a valid key
ValidXApiKey(r) ==
    LET text == HeaderGet(r.headers, "X-API-Key").key
    IN  text = dev_api_key \/ ValidStoreKey(text)

\* The principal of the token path for the request's token
IsTokenPrincipal(r, result) ==
    /\ result # Returned(NoDict)
    /\ "value" \in DOMAIN result
    /\ Get(result.value, "auth_method", None) = "jwt"
    /\ result.value.user_id = validate_token(bearer_token(r.headers), now).user_id

\* C2 as stated: authenticate_request on headers with a valid Bearer token
\* (subject in the store) and a valid X-API-Key always returns the token-path
\* principal, and the key validator is never invoked for that request.
C2_TokenAlwaysWins ==
    \A p \in Callers :
        (Done(p) /\ req[p].kind = "authenticate_request"
                 /\ ValidBearer(req[p]) /\ ValidXApiKey(req[p]))
            => (IsTokenPrincipal(req[p], req[p].result) /\ req[p].key_validator_calls = 0)

\* The token path wins in the calls during which every store operation
\* completed without error
TokenWinsWhenStoreAnswers ==
    \A p \in Callers :
        (Done(p) /\ req[p].kind = "authenticate_request"
                 /\ ValidBearer(req[p]) /\ ValidXApiKey(req[p])
                 /\ req[p].store_errors = 0)
            => (IsTokenPrincipal(req[p], req[p].result) /\ req[p].key_validator_calls = 0)

\* isActive of the specification: not blocked, and confirmed on the token path
Active(u) ==
    /\ ~Get(u, "blocked", FALSE)
    /\ (Get(u, "auth_method", None) # "jwt" \/ Get(u, "confirmed", TRUE))

\* The status code the guard owes a request that resolved to u (0: admit)
OwedCode(u, required_scopes, required_roles) ==
    IF u = NoDict THEN 401
    ELSE IF ~Active(u) THEN 401
    ELSE IF ~(required_scopes \subseteq Get(u, "scopes", {})) THEN 403
    ELSE IF required_roles # {} /\ Get(u, "role", "") \notin required_roles THEN 403
    ELSE 0

\* The guarded call of p ran the operation once, or rejected with the code owed
GuardDecided(p) ==
    LET r == req[p]
        owed == OwedCode(r.user, r.required_scopes, r.required_roles)
    IN  IF owed = 0 THEN r.ran = 1
        ELSE /\ r.ran = 0
             /\ "value" \in DOMAIN r.result
             /\ DOMAIN r.result.value = {"error"}
             /\ DOMAIN r.result.value.error = {"code", "message"}
             /\ r.result.value.error.code = owed

\* C3: under require_auth the operation runs iff the request resolves to an
\* active principal with the required scopes and roles; otherwise it is never
\* invoked and the result is {error: {code, message}} with code 401 (no
\* principal), 401 (not active), 403 (scopes), 403 (roles), in that order.
C3_GuardDecides ==
    \A p \in Callers :
        (Done(p) /\ req[p].kind = "require_auth") => GuardDecided(p)

\* The guard's decision in the calls no exception escapes from
GuardDecidesUnlessRaised ==
    \A p \in Callers :
        (Done(p) /\ req[p].kind = "require_auth" /\ "raised" \notin DOMAIN req[p].result)
            => GuardDecided(p)

\* C6: when the store is unreachable or a store operation fails during
\* authenticate_request (the first request's pool initialization included),
\* the request ends without a principal and no exception reaches the caller of
\* authenticate_request or of the require_auth guard.
C6_StoreFailureFailsClosed ==
    \A p \in Callers :
        (Done(p) /\ req[p].kind \in {"authenticate_request", "require_auth"}
                 /\ req[p].store_errors > 0)
            => /\ "raised" \notin DOMAIN req[p].result
               /\ req[p].user = NoDict
               /\ req[p].ran = 0

\* The call of p went through authenticate_request and ended with the
\* principal of a key of the store
StoreKeyAuthenticated(p) ==
    /\ Done(p) \/ req[p].pc = "operation"
    /\ req[p].kind \in {"authenticate_request", "require_auth", "validate_request"}
    /\ req[p].user # NoDict
    /\ "api_key_id" \in DOMAIN req[p].user
    /\ req[p].user.api_key_id \in DOMAIN api_keys

\* C11: a request authenticated through a store-backed API key resolves to a
\* principal whose userId is the owner's id as a string, whose username is
\* the username of the owner's record, whose scopes are exactly the key's
\* explicit scopes, and whose auth method marks the key path.
C11_KeyPrincipalIsOwner ==
    \A p \in Callers :
        StoreKeyAuthenticated(p)
            => LET u == req[p].user
                   row == api_keys[u.api_key_id]
               IN  /\ row.owner_link \in DOMAIN up_users
                   /\ u.user_id = StrOf(row.owner_link)
                   /\ u.username = up_users[row.owner_link].username
                   /\ (row.scopes_shape = "list" /\ row.scopes # <<>>) =>
                        u.scopes = normalize_scopes(row.scopes)
                   /\ u.auth_method = "api_key"

\* The same without the username: owner id, explicit scopes (the items of the
\* list, stripped) and auth method
KeyPrincipalButUsername ==
    \A p \in Callers :
        StoreKeyAuthenticated(p)
            => LET u == req[p].user
                   row == api_keys[u.api_key_id]
               IN  /\ row.owner_link \in DOMAIN up_users
                   /\ u.user_id = StrOf(row.owner_link)
                   /\ u.username = "unknown"
                   /\ (row.scopes_shape = "list" /\ row.scopes # <<>>) =>
                        u.scopes = normalize_scopes(row.scopes)
                   /\ u.auth_method = "api_key"

\* The scope texts of the model that are non-empty, trimmed and lowercase
NormalizedScopeTokens ==
    {"read", "write", "admin", "delete"}

\* C14: every principal authenticate_request returns, on the token path, the
\* store-backed key path and the developer path alike, has as scopes a set
\* whose every element is a non-empty, trimmed, lowercase token, whatever the
\* raw claim or the stored scopes were.
C14_ScopesNormalized ==
    \A p \in Callers :
        (req[p].kind \in {"authenticate_request", "require_auth", "validate_request"}
            /\ req[p].user # NoDict)
            => req[p].user.scopes \subseteq NormalizedScopeTokens

\* The call of p has ended with a principal of the token path
TokenPrincipal(p) ==
    /\ Done(p) \/ req[p].pc = "operation"
    /\ req[p].kind \in {"authenticate_request", "require_auth", "optional_auth",
                        "validate_request"}
    /\ req[p].user # NoDict
    /\ req[p].user.auth_method = "jwt"

\* C23: on the token path, a verified token whose subject has no record in
\* the store yields no principal; when the record exists, the principal's
\* email, username, confirmed and blocked are the store's values whenever the
\* store has them, and the token's claims are used only where the store has
\* no value.
C23_StoreValuesWin ==
    \A p \in Callers :
        /\ TokenPrincipal(p)
            => LET u == req[p].user
                   claims == validate_token(bearer_token(req[p].headers), now)
               IN  /\ IntOf(u.user_id) \in DOMAIN up_users
                   /\ LET row == up_users[IntOf(u.user_id)]
                      IN  /\ u.email = IF row.email # None THEN row.email ELSE claims.email
                          /\ u.username = IF row.username # None THEN row.username
                                          ELSE claims.username
                          /\ u.confirmed = row.confirmed
                          /\ u.blocked = row.blocked
        /\ (/\ Done(p)
            /\ req[p].kind \in {"authenticate_request", "validate_request"}
            /\ req[p].jwt_data # NoDict
            /\ IntOf(req[p].jwt_data.user_id) \notin DOMAIN up_users)
            => /\ req[p].user = NoDict \/ req[p].user.auth_method # "jwt"
               /\ "JWT user not found in database" \in req[p].log

\* A token with the claims email and username has given alice's principal
\* with the store's email and username
C23_Witness ==
    /\ TokenPrincipal("r1")
    /\ bearer_token(req["r1"].headers)
         = WithClaims(GoodToken(7, "", "admin", <<"read">>), "eve@claim", "eve")
    /\ req["r1"].user.email = "alice@x"
    /\ req["r1"].user.username = "alice"

\* A token has given the principal of dave, who has no email in the store,
\* with the email of its claim
TokenEmailWhereStoreHasNone ==
    /\ TokenPrincipal("r1")
    /\ req["r1"].user.user_id = "6"
    /\ req["r1"].user.email = "dave@claim"
    /\ req["r1"].user.username = "dave"

\* A verified token whose subject has no row has yielded no principal
TokenOfNobodyYieldsNone ==
    /\ Done("r1")
    /\ req["r1"].kind = "authenticate_request"
    /\ req["r1"].jwt_data # NoDict
    /\ req["r1"].jwt_data.user_id = "5"
    /\ req["r1"].result = Returned(NoDict)

\* The request of p was authenticated by a key of the store whose owner's
\* row has blocked = true
BlockedOwnerKey(p) ==
    /\ StoreKeyAuthenticated(p)
    /\ api_keys[req[p].user.api_key_id].owner_link \in DOMAIN up_users
    /\ up_users[api_keys[req[p].user.api_key_id].owner_link].blocked

\* C26: a request authenticated by a store-backed API key whose owner's
\* record has blocked = true is never admitted: require_auth returns a 401
\* rejection without invoking the operation, and validate_request returns
\* valid = false.
C26_BlockedOwnerKeyNotAdmitted ==
    \A p \in Callers :
        BlockedOwnerKey(p)
            => /\ req[p].kind = "require_auth"
                    => /\ req[p].ran = 0
                       /\ Done(p)
                       /\ \E message \in {"Authentication required", "Authentication failed"} :
                             req[p].result = Returned(create_error_response(message, 401))
               /\ req[p].kind = "validate_request"
                    => ~req[p].result.value.valid

\* What holds of it: the principal of a key carries no 'blocked' at all, so
\* the owner's blocked never reaches is_authenticated
KeyPrincipalWithoutBlocked ==
    \A p \in Callers :
        StoreKeyAuthenticated(p)
            => /\ "blocked" \notin DOMAIN req[p].user
               /\ is_authenticated(req[p].user)

\* The key of blocked bob has passed validate_request
BlockedOwnerKeyValid ==
    /\ BlockedOwnerKey("r1")
    /\ req["r1"].kind = "validate_request"
    /\ req["r1"].user.user_id = "8"
    /\ req["r1"].result.value.valid

\* authenticate_request has returned to p and its token path gave no
\* principal
NoTokenPrincipal(p) ==
    /\ Done(p)
    /\ req[p].kind = "authenticate_request"
    /\ "value" \in DOMAIN req[p].result
    /\ req[p].user = NoDict \/ req[p].user.auth_method # "jwt"

\* The store answered the lookups of the key path of r: neither the lookup
\* of the key nor that of its owner failed
KeyPathAnswered(r) ==
    /\ "Error fetching API key" \notin r.log
    /\ ~("Error fetching user" \in r.log /\ "User not found for API key" \in r.log)

\* What the key path gives for a valid key of the store
StoreKeyPathPrincipal(text) ==
    LET row == select_api_key(api_keys, SplitKeyId(text))
    IN  api_key_principal(key_principal(SplitKeyId(text), row, select_user(row.owner_id)))

\* C27: whenever the token path produces no principal (no Bearer header, an
\* invalid or expired token, or a verified token whose subject is not in the
\* store), authenticate_request returns exactly what the key path alone
\* returns for the same headers: the key principal when the presented API key
\* is valid, and null when no key is presented or the key is invalid.
C27_FallsBackToKeyPath ==
    \A p \in Callers :
        NoTokenPrincipal(p)
            => LET r == req[p]
                   presented == presented_api_key(r.headers)
                   text == Strip(presented)
               IN  /\ r.key_validator_calls = IF presented = <<>> THEN 0 ELSE 1
                   /\ presented = <<>> => r.result = Returned(NoDict)
                   /\ (presented # <<>> /\ text = dev_api_key)
                        => r.result = Returned(api_key_principal(dev_principal))
                   /\ (presented # <<>> /\ text # dev_api_key /\ ~ValidStoreKey(text))
                        => r.result = Returned(NoDict)
                   /\ (presented # <<>> /\ text # dev_api_key /\ ValidStoreKey(text))
                        => r.result = IF KeyPathAnswered(r)
                                      THEN Returned(StoreKeyPathPrincipal(text))
                                      ELSE Returned(NoDict)

\* A verified token of a subject without a row came with alice's key, and
\* authenticate_request has returned the principal of the key
C27_Witness ==
    /\ NoTokenPrincipal("r1")
    /\ req["r1"].jwt_data # NoDict
    /\ req["r1"].jwt_data.user_id = "5"
    /\ "JWT user not found in database" \in req["r1"].log
    /\ presented_api_key(req["r1"].headers) = <<"k", ":", "s">>
    /\ req["r1"].result # Returned(NoDict)
    /\ req["r1"].result.value.user_id = "7"
    /\ req["r1"].result.value.auth_method = "api_key"

\* A token that does not verify came with the dev key, and
\* authenticate_request has returned the dev principal
InvalidTokenThenDevKey ==
    /\ NoTokenPrincipal("r1")
    /\ bearer_token(req["r1"].headers).form = "garbage"
    /\ presented_api_key(req["r1"].headers) = dev_api_key
    /\ req["r1"].result = Returned(api_key_principal(dev_principal))

\* C20: optional_auth never rejects: for every request, whatever its
\* credentials and whatever the outcome of authentication, the wrapped
\* operation is invoked exactly once, with the principal bound when
\* authentication yields an active principal and None bound otherwise.
C20_OptionalAlwaysProceeds ==
    \A p \in Callers :
        (Done(p) /\ req[p].kind = "optional_auth")
            => /\ req[p].ran = 1
               /\ req[p].result = Returned([operation |-> "returned"])
               /\ req[p].seen = IF req[p].user # NoDict /\ Active(req[p].user)
                                THEN req[p].user ELSE NoDict

\* What holds of it: the operation runs once, with the active principal or
\* None, unless the pool of the store could not be made
OptionalProceedsUnlessRaised ==
    \A p \in Callers :
        req[p].kind = "optional_auth"
            => /\ req[p].ran <= 1
               /\ req[p].pc = "operation"
                    => /\ req[p].ran = 1
                       /\ current_user = IF req[p].user # NoDict /\ Active(req[p].user)
                                         THEN req[p].user ELSE NoDict
               /\ Done(p)
                    => \/ /\ req[p].result = Raised("ConnectionError")
                          /\ req[p].ran = 0
                          /\ "Failed to initialize database pool" \in req[p].log
                       \/ /\ req[p].ran = 1
                          /\ req[p].result = Returned([operation |-> "returned"])
                          /\ req[p].seen = IF req[p].user # NoDict /\ Active(req[p].user)
                                           THEN req[p].user ELSE NoDict

\* An optional call of a blocked user's token ran the operation without a
\* principal
OptionalBlockedRanUnbound ==
    /\ Done("r1") /\ req["r1"].kind = "optional_auth"
    /\ req["r1"].user # NoDict
    /\ Get(req["r1"].user, "blocked", FALSE)
    /\ req["r1"].ran = 1
    /\ req["r1"].seen = NoDict

(***************************************************************************)
(* Two guarded calls in flight on one AuthMiddleware object                *)
(***************************************************************************)

\* The credentials of the two callers: alice's token, the developer key,
\* carol's key
PairHeaderSets ==
    {{[name |-> "Authorization",
       value |-> Bearer(GoodToken(7, "", "admin", <<"read", "write">>))]},
     {[name |-> "X-API-Key", value |-> Bare(dev_api_key)]},
     {[name |-> "X-API-Key", value |-> Bare(<<"k", ":", "s">>)]}}

\* A method wrapped by require_auth is called while another call may be in
\* flight
CallGuardedPair(p) ==
    /\ req[p].pc = "idle"
    /\ \E headers \in PairHeaderSets, scopes \in {{}, {"read"}} :
          Start(p, "require_auth", headers, <<>>, scopes, {})

InitPair ==
    InitAuth({KeyTable(KeyRow("active", NoDict, TheSecret, 9, <<"read">>))}, {0})

\* The event loop runs either call up to its next await
NextPair ==
    \/ CallGuardedPair("r1")
    \/ CallGuardedPair("r2")
    \/ Step("r1")
    \/ Step("r2")

SpecPair == InitPair /\ [][NextPair]_vars

\* C4: with two guarded requests in flight on the same object, the principal
\* get_current_user returns inside each operation is that request's own
\* principal, never the other request's.
C4_OwnPrincipalSeen ==
    \A p \in Callers :
        (Done(p) /\ req[p].kind = "require_auth" /\ req[p].ran = 1)
            => req[p].seen = req[p].user

(***************************************************************************)
(* Two calls one after the other, with credentials that fail               *)
(***************************************************************************)

\* Why the store and the clock make a key text fail, {} when it is valid
KeyFailureReasons(text) ==
    LET key_id == SplitKeyId(Strip(text))
    IN  IF ~InList(":", Strip(text)) THEN {"bad key format"}
        ELSE IF key_id \notin DOMAIN api_keys THEN {"key not found"}
        ELSE IF api_keys[key_id].status # "active" THEN {"key revoked"}
        ELSE IF is_expired(api_keys[key_id].expires_at, now) THEN {"key expired"}
        ELSE IF api_keys[key_id].secret_hash # Sha256(SplitSecret(Strip(text)))
        THEN {"secret mismatch"}
        ELSE IF api_keys[key_id].owner_link \notin DOMAIN up_users
        THEN {"missing identity record"}
        ELSE {}

\* Why the clock and the store make a bearer token fail, {} when it is valid
TokenFailureReasons(token) ==
    IF token.form # "jwt" THEN {"malformed token"}
    ELSE IF token.signed_with # "JWT_SECRET" THEN {"bad token signature"}
    ELSE IF token.exp <= now THEN {"expired token"}
    ELSE IF token.id \notin DOMAIN up_users /\ IntOf(token.sub) \notin DOMAIN up_users
    THEN {"missing identity record"}
    ELSE {}

\* The reasons for which the credentials of a request fail
FailureReasons(r) ==
    (IF bearer_token(r.headers) = NoToken THEN {}
     ELSE TokenFailureReasons(bearer_token(r.headers)))
    \cup (IF presented_api_key(r.headers) = <<>> THEN {}
          ELSE KeyFailureReasons(presented_api_key(r.headers)))

\* What the validators write to the log when they turn a credential down
CredentialFailureLogs ==
    {"Invalid API key format", "API key not found", "API key expired",
     "Invalid API key secret", "User not found for API key", "API key validation error",
     "JWT token expired", "Invalid JWT token", "JWT token missing subject/id",
     "JWT user not found in database"}

\* The call of r presented credentials, every one of them fails for some
\* reason, and the validators have run and turned them down
FailedValidation(r) ==
    /\ r.pc = "done"
    /\ bearer_token(r.headers) # NoToken \/ presented_api_key(r.headers) # <<>>
    /\ bearer_token(r.headers) # NoToken => TokenFailureReasons(bearer_token(r.headers)) # {}
    /\ presented_api_key(r.headers) # <<>> =>
          /\ Strip(presented_api_key(r.headers)) # dev_api_key
          /\ KeyFailureReasons(presented_api_key(r.headers)) # {}
    /\ r.log \cap CredentialFailureLogs # {}

\* Tokens that fail: wrong signature, expired from clock 1 on, not a token,
\* a subject without a row
FailingTokens ==
    {Token("jwt", "other", MaxClock + 1, 7, "", "admin", <<"read", "write">>),
     Token("jwt", "JWT_SECRET", 1, 7, "", "admin", <<"read", "write">>),
     Token("garbage", "", 0, 0, "", "", <<>>),
     GoodToken(5, "", "admin", <<"read">>)}

\* Key texts that fail on some table: no ':', unknown key id, wrong secret,
\* and the issued text of the table's row
FailingKeyTexts ==
    {<<"k", "s">>, <<"s", ":", "s">>, <<"k", ":", "k">>, <<"k", ":", "s">>}

FailingHeaderSets ==
    {{[name |-> "Authorization", value |-> Bearer(t)]} : t \in FailingTokens}
    \cup {{[name |-> "X-API-Key", value |-> Bare(k)]} : k \in FailingKeyTexts}
    \cup {{[name |-> "Authorization", value |-> Bearer(t)],
           [name |-> "X-API-Key", value |-> Bare(<<"k", ":", "s">>)]} : t \in FailingTokens}

\* Rows on which the issued text fails, and one on which it is valid
FailingKeyRows ==
    {KeyRow("revoked", NoDict, TheSecret, 7, <<"read">>),
     KeyRow("active", Naive(0), TheSecret, 7, <<"read">>),
     KeyRow("active", NoDict, TheSecret, 5, <<"read">>),
     KeyRow("active", NoDict, TheSecret, 7, <<"read">>)}

\* The caller's first call, through any of the three entry points
CallFirst ==
    /\ req["r1"].pc = "idle"
    /\ \E kind \in {"authenticate_request", "require_auth", "validate_request"},
          headers \in FailingHeaderSets :
          Start("r1", kind, headers, <<>>, {}, {})

\* The caller's second call, through the same entry point, after the first
\* has ended
CallSecond ==
    /\ req["r1"].pc = "done"
    /\ req["r2"].pc = "idle"
    /\ \E headers \in FailingHeaderSets :
          Start("r2", req["r1"].kind, headers, <<>>,
                IF req["r1"].kind = "authenticate_request" THEN {} ELSE {"read"}, {})

InitTwo ==
    InitAuth({KeyTable(row) : row \in FailingKeyRows}, {0})

NextTwo ==
    \/ CallFirst
    \/ CallSecond
    \/ Step("r1")
    \/ Step("r2")

SpecTwo == InitTwo /\ [][NextTwo]_vars

\* C7: any two requests whose credentials fail validation, whatever the
\* reasons (bad key format, key not found, expired, revoked, secret mismatch,
\* bad token signature, expired token, missing identity record), get the
\* same value from authenticate_request and the same rejection from
\* require_auth and from validate_request.
C7_FailuresIndistinguishable ==
    \A p, q \in Callers :
        (FailedValidation(req[p]) /\ FailedValidation(req[q]) /\ req[p].kind = req[q].kind)
            => /\ req[p].result = req[q].result
               /\ req[p].ran = 0
               /\ req[p].user = NoDict

\* Two guarded requests have failed for different reasons
C7_Witness ==
    /\ FailedValidation(req["r1"]) /\ FailedValidation(req["r2"])
    /\ req["r1"].kind = "require_auth" /\ req["r2"].kind = "require_auth"
    /\ FailureReasons(req["r1"]) = {"key revoked"}
    /\ FailureReasons(req["r2"]) = {"bad token signature"}
    /\ req["r2"].result = Returned(create_error_response("Authentication required", 401))

(***************************************************************************)
(* APIKeyValidator.validate_api_key called on its own                      *)
(***************************************************************************)

\* The texts of at most n characters
RECURSIVE TextsUpTo(_)
TextsUpTo(n) ==
    IF n = 0 THEN {<<>>}
    ELSE TextsUpTo(n - 1)
         \cup {Append(t, c) : t \in {u \in TextsUpTo(n - 1) : Len(u) = n - 1}, c \in Chars}

\* The texts validate_api_key is called with
ApiKeyArguments ==
    TextsUpTo(MaxKeyLen) \cup {dev_api_key}

\* The expiry values of a row: none, a naive reading of the clock, a reading
\* in a zone one hour ahead of UTC
Expiries ==
    {NoDict} \cup {Naive(w) : w \in 0..MaxClock} \cup {Aware(w, 1) : w \in 0..MaxClock}

\* The secrets keys were issued with: one has white space at its end, one
\* has a colon
IssuedSecrets ==
    {<<"k">>, <<"k", " ">>, <<":", "k">>}

\* The rows of the table: every status and expiry of alice's key, and the
\* unexpired active keys with every secret and owner link
ValidatorKeyRows ==
    {KeyRow(status, expires_at, <<"k">>, 7, <<"read">>) :
        status \in {"active", "revoked"}, expires_at \in Expiries}
    \cup {KeyRow("active", expires_at, secret, owner_link, <<>>) :
            expires_at \in {NoDict, Naive(MaxClock)}, secret \in IssuedSecrets,
            owner_link \in {0, 5, 7}}
    \cup {KeyRow("active", NoDict, <<"k">>, 6, scopes) : scopes \in {<<>>, <<"write">>}}
    \cup {WithScopesText(KeyRow("active", NoDict, <<"k">>, owner_link, <<>>), shape, items) :
            owner_link \in {6, 7},
            shape \in {"json_array", "json_value", "text"},
            items \in {<<>>, <<"read ", " ", "write">>}}

\* validate_api_key is called
CallValidateApiKey(p) ==
    /\ req[p].pc = "idle"
    /\ \E api_key \in ApiKeyArguments :
          Start(p, "validate_api_key", {}, api_key, {}, {})

\* The validator's DatabaseClient has a pool or has none
InitKey ==
    InitAuth({NoKeys} \cup {KeyTable(row) : row \in ValidatorKeyRows}, {0, 1})

NextKey ==
    \/ CallValidateApiKey("r1")
    \/ ValidateKey("r1")
    \/ KeyLookup("r1")
    \/ KeyTouch("r1")
    \/ KeyOwner("r1")

SpecKey == InitKey /\ [][NextKey]_vars

\* The call of r is validate_api_key('keyId:secret') and has ended
KeyCallDone(r) ==
    /\ r.pc = "done"
    /\ r.kind = "validate_api_key"
    /\ InList(":", r.api_key)

\* The record stored under the keyId of the text
RecordOf(text) ==
    api_keys[SplitKeyId(text)]

\* expiresAt is in the past, a value without timezone being read as UTC
InThePast(expires_at) ==
    /\ expires_at # NoDict
    /\ (IF expires_at.naive THEN expires_at.wall
        ELSE expires_at.wall - expires_at.utcoffset) < now

\* The record of the text is active and unexpired
ActiveUnexpired(text) ==
    /\ SplitKeyId(text) \in DOMAIN api_keys
    /\ RecordOf(text).status = "active"
    /\ ~InThePast(RecordOf(text).expires_at)

StoreAnswered(r) ==
    /\ pool # 0
    /\ "Error fetching API key" \notin r.log
    /\ "Error fetching user" \notin r.log

C8_ExpiredKeyRejected ==
    \A p \in Callers :
        (/\ KeyCallDone(req[p])
         /\ SplitKeyId(Strip(req[p].api_key)) \in DOMAIN api_keys
         /\ InThePast(api_keys[SplitKeyId(Strip(req[p].api_key))].expires_at))
            => req[p].result = Returned(NoDict)

\* An active key with a naive expiry just past, presented with its secret
\* to a store that answers, has been rejected as expired
C8_Witness ==
    /\ KeyCallDone(req["r1"])
    /\ req["r1"].api_key = <<"k", ":", "k">>
    /\ <<"k">> \in DOMAIN api_keys
    /\ RecordOf(req["r1"].api_key).status = "active"
    /\ RecordOf(req["r1"].api_key).secret_hash = Sha256(<<"k">>)
    /\ RecordOf(req["r1"].api_key).expires_at = Naive(now - 1)
    /\ StoreAnswered(req["r1"])
    /\ req["r1"].result = Returned(NoDict)
    /\ "API key expired" \in req["r1"].log

\* C9: a key whose record has a status other than active is always rejected
\* by validate_api_key, even when the presented secret hashes to secretHash
\* and the record has no expiry.
C9_InactiveKeyRejected ==
    \A p \in Callers :
        (/\ KeyCallDone(req[p])
         /\ SplitKeyId(Strip(req[p].api_key)) \in DOMAIN api_keys
         /\ api_keys[SplitKeyId(Strip(req[p].api_key))].status # "active")
            => req[p].result = Returned(NoDict)

\* A revoked key without expiry, presented with its secret to a store that
\* answers, has been rejected
C9_Witness ==
    /\ KeyCallDone(req["r1"])
    /\ req["r1"].api_key = <<"k", ":", "k">>
    /\ <<"k">> \in DOMAIN api_keys
    /\ RecordOf(req["r1"].api_key).status = "revoked"
    /\ RecordOf(req["r1"].api_key).secret_hash = Sha256(<<"k">>)
    /\ RecordOf(req["r1"].api_key).expires_at = NoDict
    /\ StoreAnswered(req["r1"])
    /\ req["r1"].result = Returned(NoDict)

\* The call of r is validate_api_key and has ended after its key passed the
\* lookup, the expiry check and the secret check
PassedKeyChecks(r) ==
    /\ r.pc = "done"
    /\ r.kind = "validate_api_key"
    /\ r.api_key_data # NoDict

\* C22: for a key that has passed the lookup, expiry and secret checks, the
\* result of validate_api_key is the same whether the update of last_used_at
\* succeeds or fails: it is the owner's principal exactly when the owner's
\* row is found, and a failed update never makes it a rejection.
C22_TouchFailureHarmless ==
    \A p \in Callers :
        PassedKeyChecks(req[p])
            => LET r == req[p]
                   owner_found ==
                       /\ "owner_id" \in DOMAIN r.api_key_data
                       /\ r.api_key_data.owner_id \in DOMAIN up_users
                       /\ "Error fetching user" \notin r.log
               IN  /\ r.result # Returned(NoDict) <=> owner_found
                   /\ owner_found =>
                        r.result.value.user_id = StrOf(r.api_key_data.owner_id)

\* A key was given its owner's principal although the update of last_used_at
\* failed
C22_Witness ==
    /\ PassedKeyChecks(req["r1"])
    /\ "Error updating API key last_used_at" \in req["r1"].log
    /\ \A k \in DOMAIN api_keys : api_keys[k].last_used_at = -1
    /\ req["r1"].result # Returned(NoDict)
    /\ req["r1"].result.value.user_id = "7"

\* C17: validate_api_key called with a key equal to the configured dev key
\* returns the fixed dev principal (configured user id, role, scopes and
\* organization, is_dev true) and calls no method of the store, whether the
\* store has no pool, no rows, or fails.
C17_DevKeyBypassesStore ==
    \A p \in Callers :
        (/\ req[p].pc = "done"
         /\ req[p].kind = "validate_api_key"
         /\ req[p].api_key = dev_api_key)
            => /\ req[p].result
                    = Returned([user_id |-> "dev-user", role |-> "super_admin",
                                scopes |-> {"read", "write", "admin"},
                                organization_id |-> "dev-org", is_dev |-> TRUE])
               /\ req[p].store_calls = 0
               /\ req[p].store_errors = 0
               /\ \A k \in DOMAIN api_keys : api_keys[k].last_used_at = -1

\* The dev key has been answered by a validator whose store has no pool
C17_Witness ==
    /\ req["r1"].pc = "done"
    /\ req["r1"].kind = "validate_api_key"
    /\ req["r1"].api_key = dev_api_key
    /\ pool = 0
    /\ req["r1"].result # Returned(NoDict)
    /\ req["r1"].result.value.is_dev

\* The number of colons of a text
RECURSIVE Colons(_)
Colons(text) ==
    IF text = <<>> THEN 0
    ELSE (IF Head(text) = ":" THEN 1 ELSE 0) + Colons(Tail(text))

\* C18: validate_api_key returns null for every key that is empty or blank,
\* and for every key that is not the dev key and does not contain exactly one
\* colon: for the keys without a colon and for the keys with two or more.
C18_MalformedKeyRejected ==
    \A p \in Callers :
        (/\ req[p].pc = "done"
         /\ req[p].kind = "validate_api_key"
         /\ \/ Strip(req[p].api_key) = <<>>
            \/ req[p].api_key # dev_api_key /\ Colons(req[p].api_key) # 1)
            => req[p].result = Returned(NoDict)

\* What holds of it: null for the empty and blank keys and for the keys
\* without a colon that are not the dev key; a key with two or more colons
\* is turned down only when the text after its first colon is not the secret
\* of the record
BlankOrColonlessKeyRejected ==
    \A p \in Callers :
        (/\ req[p].pc = "done"
         /\ req[p].kind = "validate_api_key"
         /\ \/ Strip(req[p].api_key) = <<>>
            \/ Strip(req[p].api_key) # dev_api_key /\ Colons(req[p].api_key) = 0)
            => /\ req[p].result = Returned(NoDict)
               /\ req[p].store_calls = 0

\* The role of the owner of a row: the type of the role the user is linked to
OwnerRole(row) ==
    up_users[row.owner_link].roles[1].role_type

\* The row carries an explicit scopes value: a list, JSON-array text or
\* comma-separated text
ExplicitScopes(row) ==
    CASE row.scopes_shape = "list" -> row.scopes # <<>>
      [] row.scopes_shape = "json_array" -> TRUE
      [] row.scopes_shape = "text" -> row.scopes # <<>>
      [] OTHER -> FALSE

\* The normalization of the explicit scopes value of a row, as _normalize_scopes
\* does it for a list and for comma-separated text
NormalizedScopesOf(row) ==
    IF row.scopes_shape = "text"
    THEN {StripScope(row.scopes[i]) :
            i \in {j \in 1..Len(row.scopes) : StripScope(row.scopes[j]) # ""}}
    ELSE normalize_scopes(row.scopes)

\* The role-default table, {read} for a role that is not in it
RoleDefaultScopes(role) ==
    CASE role = "super_admin" -> {"read", "write", "admin", "delete"}
      [] role = "admin" -> {"read", "write", "admin"}
      [] role = "developer" -> {"read", "write"}
      [] role \in {"viewer", "authenticated"} -> {"read"}
      [] OTHER -> {"read"}

\* The call of r has ended with the principal of a key of the store
StoreKeyPrincipal(r) ==
    /\ r.pc = "done"
    /\ r.kind = "validate_api_key"
    /\ r.result # Returned(NoDict)
    /\ ~r.result.value.is_dev

\* C19: the scopes of a store-backed key principal follow the precedence
\* rule: when the key record carries an explicit scopes value (a list,
\* JSON-array text or comma-separated text) they are exactly its
\* normalization; otherwise they are the role-default table entry of the
\* key's role or else the owner's role, {read} for a role not in the table.
C19_ScopePrecedence ==
    \A p \in Callers :
        StoreKeyPrincipal(req[p])
            => LET row == api_keys[req[p].key_id]
               IN  req[p].result.value.scopes
                     = IF ExplicitScopes(row) THEN NormalizedScopesOf(row)
                       ELSE RoleDefaultScopes(OwnerRole(row))

\* What holds of it: an explicit list, JSON-array text or comma-separated
\* text is normalized; every other key gets {read}, whatever its owner's role
ExplicitScopesElseRead ==
    \A p \in Callers :
        StoreKeyPrincipal(req[p])
            => LET row == api_keys[req[p].key_id]
               IN  req[p].result.value.scopes
                     = IF ExplicitScopes(row) THEN NormalizedScopesOf(row)
                       ELSE {"read"}

(***************************************************************************)
(* AuthManager.is_authenticated called on its own                          *)
(***************************************************************************)

\* A user_data dict: 'blocked' and 'confirmed' are "True", "False" or "absent",
\* 'auth_method' is a method or "absent"
UserData(blocked, confirmed, auth_method, role, scopes) ==
    [k \in {"user_id", "role", "scopes"}
            \cup (IF blocked = "absent" THEN {} ELSE {"blocked"})
            \cup (IF confirmed = "absent" THEN {} ELSE {"confirmed"})
            \cup (IF auth_method = "absent" THEN {} ELSE {"auth_method"}) |->
        CASE k = "user_id" -> "7"
          [] k = "role" -> role
          [] k = "scopes" -> scopes
          [] k = "blocked" -> blocked = "True"
          [] k = "confirmed" -> confirmed = "True"
          [] OTHER -> auth_method]

\* The dicts is_authenticated is called with, and None
UserDataArguments ==
    {NoDict}
    \cup {UserData(blocked, confirmed, auth_method, role, scopes) :
            blocked \in {"True", "False", "absent"},
            confirmed \in {"True", "False", "absent"},
            auth_method \in {"jwt", "api_key", "absent"},
            role \in {"admin", "authenticated"},
            scopes \in {{}, {"read", "write", "admin"}}}

\* AuthManager.is_authenticated is called
IsAuthenticated ==
    /\ pred_call = NoCall
    /\ \E user_data \in UserDataArguments :
          pred_call' = [called |-> TRUE, user_data |-> user_data,
                        is_authenticated |-> is_authenticated(user_data)]
    /\ UNCHANGED <<auth_vars, rbac_vars>>

InitPred ==
    InitAuth({NoKeys}, {0})

NextPred ==
    IsAuthenticated

SpecPred == InitPred /\ [][NextPred]_vars

\* C10: is_authenticated(principal) is true exactly when the principal is not
\* blocked and (its auth method is not the token method or it is confirmed);
\* it is false whenever blocked is true, whatever the role, scopes and auth
\* method.  A dict without 'blocked' is not blocked, one without 'confirmed'
\* is confirmed.
C10_ActiveIffNotBlockedAndConfirmed ==
    (pred_call # NoCall /\ pred_call.user_data # NoDict)
        => LET u == pred_call.user_data
               blocked == "blocked" \in DOMAIN u /\ u.blocked
               confirmed == "confirmed" \in DOMAIN u => u.confirmed
               by_token == "auth_method" \in DOMAIN u /\ u.auth_method = "jwt"
           IN  /\ pred_call.is_authenticated <=> (~blocked /\ (~by_token \/ confirmed))
               /\ blocked => ~pred_call.is_authenticated

\* is_authenticated has turned down a blocked, confirmed administrator with
\* every scope who came with a key
C10_Witness ==
    /\ pred_call # NoCall
    /\ pred_call.user_data
         = UserData("True", "True", "api_key", "admin", {"read", "write", "admin"})
    /\ ~pred_call.is_authenticated

(***************************************************************************)
(* JWTValidator._normalize_scopes called on its own                        *)
(***************************************************************************)

\* The longest text of a scopes claim, the example text apart
MaxScopeLen == 3

\* The characters of the claims: letters in both cases, the comma, white space
ScopeChars == {"r", "W", "w", ",", " "}

RECURSIVE ScopeTextsUpTo(_)
ScopeTextsUpTo(n) ==
    IF n = 0 THEN {<<>>}
    ELSE ScopeTextsUpTo(n - 1)
         \cup {Append(t, c) : t \in {u \in ScopeTextsUpTo(n - 1) : Len(u) = n - 1},
                               c \in ScopeChars}

\* 'read, write ,,admin'
ExampleScopeText ==
    <<"r", "e", "a", "d", ",", " ", "w", "r", "i", "t", "e", " ", ",", ",",
      "a", "d", "m", "i", "n">>

\* The items of the list claims
ScopeItems ==
    {<<>>, <<" ">>, <<"r">>, <<" ", "r">>, <<"w">>, <<"W">>, <<"W", " ">>}

\* The claims _normalize_scopes is called with
ScopesClaims ==
    {AbsentClaim, OtherClaim, StrClaim(ExampleScopeText)}
    \cup {StrClaim(t) : t \in ScopeTextsUpTo(MaxScopeLen)}
    \cup {ListClaim(<<>>)}
    \cup {ListClaim(<<a>>) : a \in ScopeItems}
    \cup {ListClaim(<<a, b>>) : a \in ScopeItems, b \in ScopeItems}

\* _normalize_scopes is called
NormalizeScopes ==
    /\ pred_call = NoCall
    /\ \E scopes_claim \in ScopesClaims :
          pred_call' = [called |-> TRUE, times |-> 1, scopes_claim |-> scopes_claim,
                        scopes |-> normalize_scopes_text(scopes_claim),
                        again |-> {}]
    /\ UNCHANGED <<auth_vars, rbac_vars>>

\* _normalize_scopes is called with the set it returned
NormalizeScopesAgain ==
    /\ pred_call # NoCall
    /\ pred_call.times = 1
    /\ pred_call' = [pred_call EXCEPT
                        !.times = 2,
                        !.again = normalize_scopes_text(SetClaim(pred_call.scopes))]
    /\ UNCHANGED <<auth_vars, rbac_vars>>

InitScopes ==
    InitAuth({NoKeys}, {0})

NextScopes ==
    \/ NormalizeScopes
    \/ NormalizeScopesAgain

SpecScopes == InitScopes /\ [][NextScopes]_vars

\* C13: scope normalization is idempotent and case-preserving: applied to an
\* already-normalized set it yields the same set; 'read, write ,,admin'
\* normalizes to {read, write, admin}; 'Write' and 'write' stay distinct.
C13_NormalizeIdempotent ==
    pred_call # NoCall
        => /\ pred_call.times = 2 => pred_call.again = pred_call.scopes
           /\ pred_call.scopes_claim = StrClaim(ExampleScopeText)
                => pred_call.scopes = {<<"r", "e", "a", "d">>, <<"w", "r", "i", "t", "e">>,
                                       <<"a", "d", "m", "i", "n">>}
           /\ pred_call.scopes_claim = StrClaim(<<"W", ",", "w">>)
                => pred_call.scopes = {<<"W">>, <<"w">>}

\* The example and the two cases, without the second application
NormalizeExampleAndCase ==
    pred_call # NoCall
        => /\ pred_call.scopes_claim = StrClaim(ExampleScopeText)
                => pred_call.scopes = {<<"r", "e", "a", "d">>, <<"w", "r", "i", "t", "e">>,
                                       <<"a", "d", "m", "i", "n">>}
           /\ pred_call.scopes_claim = StrClaim(<<"W", ",", "w">>)
                => pred_call.scopes = {<<"W">>, <<"w">>}

(***************************************************************************)
(* AuthManager.check_permissions called on its own                         *)
(***************************************************************************)

\* The scopes of the principals and of the requirements
ScopeNames ==
    {"read", "write", "admin", "delete"}

\* The principals check_permissions is called with, and None
PermissionPrincipals ==
    {NoDict}
    \cup {UserData("False", "True", auth_method, role, scopes) :
            auth_method \in {"jwt", "api_key"},
            role \in {"admin", "authenticated"},
            scopes \in SUBSET {"read", "write", "admin"}}

\* AuthManager.check_permissions is called
CheckPermissions ==
    /\ pred_call = NoCall
    /\ \E user_data \in PermissionPrincipals, required_scopes \in SUBSET ScopeNames :
          pred_call' = [called |-> TRUE, user_data |-> user_data,
                        required_scopes |-> required_scopes,
                        check_permissions |-> check_permissions(user_data, required_scopes)]
    /\ UNCHANGED <<auth_vars, rbac_vars>>

InitPerm ==
    InitAuth({NoKeys}, {0})

NextPerm ==
    CheckPermissions

SpecPerm == InitPerm /\ [][NextPerm]_vars

\* C15: for every resolved principal and every set R of required scopes,
\* check_permissions(principal, R) is true exactly when R is a subset of the
\* principal's scopes; it is true for the empty R and for R equal to the
\* principal's own scopes.
C15_PermittedIffSubset ==
    (pred_call # NoCall /\ pred_call.user_data # NoDict)
        => LET R == pred_call.required_scopes
               U == pred_call.user_data.scopes
           IN  /\ pred_call.check_permissions <=> \A scope \in R : scope \in U
               /\ R = {} => pred_call.check_permissions
               /\ R = U => pred_call.check_permissions

\* A principal with read and write has been refused {read, admin}
C15_Witness ==
    /\ pred_call # NoCall
    /\ pred_call.user_data # NoDict
    /\ pred_call.user_data.scopes = {"read", "write"}
    /\ pred_call.required_scopes = {"read", "admin"}
    /\ ~pred_call.check_permissions

(***************************************************************************)
(* AuthManager.check_organization called on its own                        *)
(***************************************************************************)

\* user_data with an 'organization_id' (None: the key holds None)
WithOrganization(user_data, organization_id) ==
    [k \in DOMAIN user_data \cup {"organization_id"} |->
        IF k = "organization_id" THEN organization_id ELSE user_data[k]]

\* The organization ids of the principals and of the requirements
OrganizationIds ==
    {None, "org-1", "org-2", "dev-org"}

\* The principals check_organization is called with, and None
OrganizationPrincipals ==
    {NoDict}
    \cup {UserData("False", "True", auth_method, role, scopes) :
            auth_method \in {"jwt", "api_key"},
            role \in {"super_admin", "admin", "authenticated"},
            scopes \in {{}, {"read"}}}
    \cup {WithOrganization(UserData("False", "True", auth_method, role, scopes), org) :
            auth_method \in {"jwt", "api_key"},
            role \in {"super_admin", "admin", "authenticated"},
            scopes \in {{}, {"read"}},
            org \in OrganizationIds}

\* AuthManager.check_organization is called
CheckOrganization ==
    /\ pred_call = NoCall
    /\ \E user_data \in OrganizationPrincipals, required_org_id \in OrganizationIds :
          pred_call' = [called |-> TRUE, user_data |-> user_data,
                        required_org_id |-> required_org_id,
                        check_organization |-> check_organization(user_data, required_org_id)]
    /\ UNCHANGED <<auth_vars, rbac_vars>>

InitOrg ==
    InitAuth({NoKeys}, {0})

NextOrg ==
    CheckOrganization

SpecOrg == InitOrg /\ [][NextOrg]_vars

\* C16: check_organization(principal, orgId) is true exactly when the
\* principal's role is super_admin or its organization id equals orgId; a
\* super_admin passes for every organization id, also one that is not its own.
C16_OrganizationOrTopRole ==
    (pred_call # NoCall /\ pred_call.user_data # NoDict)
        => LET u == pred_call.user_data
               organization_id ==
                   IF "organization_id" \in DOMAIN u THEN u.organization_id ELSE None
           IN  /\ pred_call.check_organization
                    <=> (u.role = "super_admin" \/ organization_id = pred_call.required_org_id)
               /\ u.role = "super_admin" => pred_call.check_organization

\* A super_admin of org-1 has passed for org-2
C16_Witness ==
    /\ pred_call # NoCall
    /\ pred_call.user_data # NoDict
    /\ pred_call.user_data.role = "super_admin"
    /\ "organization_id" \in DOMAIN pred_call.user_data
    /\ pred_call.user_data.organization_id = "org-1"
    /\ pred_call.required_org_id = "org-2"
    /\ pred_call.check_organization

(***************************************************************************)
(* Guarded calls one after the other, and the accessors between them       *)
(***************************************************************************)

\* The credentials of the calls: alice's token, carol's key, none
AfterHeaderSets ==
    {{[name |-> "Authorization",
       value |-> Bearer(GoodToken(7, "", "admin", <<"read", "write">>))]},
     {[name |-> "X-API-Key", value |-> Bare(<<"k", ":", "s">>)]},
     {}}

\* The scopes and roles the accessors are asked about
AskedScopes == {"read", "write"}
AskedRoles == {"admin", "authenticated"}

\* The first guarded call
CallGuardedFirst ==
    /\ req["r1"].pc = "idle"
    /\ \E headers \in AfterHeaderSets :
          Start("r1", "require_auth", headers, <<>>, {}, {})

\* A later guarded call on the same object, after the first has ended
CallGuardedLater ==
    /\ Done("r1")
    /\ req["r2"].pc = "idle"
    /\ \E headers \in AfterHeaderSets :
          Start("r2", "require_auth", headers, <<>>, {}, {})

\* Between the calls (a call has ended, none is in flight) the accessors of
\* the object are asked
AskCurrentUser ==
    /\ Done("r1")
    /\ req["r2"].pc \in {"idle", "done"}
    /\ pred_call' = [asked_after |-> IF Done("r2") THEN "r2" ELSE "r1",
                     get_current_user |-> get_current_user,
                     has_scope |-> [scope \in AskedScopes |-> has_scope(scope)],
                     has_role |-> [role \in AskedRoles |-> has_role(role)],
                     is_admin |-> is_admin]
    /\ UNCHANGED <<auth_vars, rbac_vars>>

InitAfter ==
    InitAuth({KeyTable(KeyRow("active", NoDict, TheSecret, 9, <<"read">>))}, {0})

NextAfter ==
    \/ CallGuardedFirst
    \/ CallGuardedLater
    \/ AskCurrentUser
    \/ Step("r1")
    \/ Step("r2")

SpecAfter == InitAfter /\ [][NextAfter]_vars

\* C28: a principal bound by require_auth is visible only for the duration
\* of that operation: once the guarded operation has returned, and in
\* particular after a later request on the same object has been rejected by
\* the guard, get_current_user, has_scope, has_role and is_admin no longer
\* report the earlier request's principal.
C28_PrincipalGoneAfterOperation ==
    pred_call # NoCall
        => /\ pred_call.get_current_user = NoDict
           /\ \A scope \in AskedScopes : ~pred_call.has_scope[scope]
           /\ \A role \in AskedRoles : ~pred_call.has_role[role]
           /\ ~pred_call.is_admin

\* What holds of the accessors between the calls: they report the principal
\* of the last call the guard admitted, None only when it admitted none
LastAdmittedPrincipalReported ==
    pred_call # NoCall
        => LET last == IF pred_call.asked_after = "r2" /\ req["r2"].ran = 1
                       THEN req["r2"].user
                       ELSE IF req["r1"].ran = 1 THEN req["r1"].user ELSE NoDict
           IN  /\ pred_call.get_current_user = last
               /\ pred_call.is_admin
                    = (last # NoDict /\ last.role \in {"admin", "super_admin"})

\* alice's operation returned, a later request without credentials was
\* rejected with 401, and the accessors still report alice
EarlierPrincipalReported ==
    /\ Done("r1") /\ req["r1"].ran = 1
    /\ req["r1"].user.user_id = "7"
    /\ Done("r2") /\ req["r2"].ran = 0
    /\ req["r2"].result = Returned(create_error_response("Authentication required", 401))
    /\ pred_call # NoCall
    /\ pred_call.asked_after = "r2"
    /\ pred_call.get_current_user = req["r1"].user
    /\ pred_call.has_scope["write"]
    /\ pred_call.is_admin

(***************************************************************************)
(* AuthMiddleware: initialize, validate_request and close in sequence      *)
(***************************************************************************)

\* auth_middleware.py:26-31 and auth_manager.py:28-33: initialize is called;
\* it returns at once when either flag spares it the pool
CallInitialize(p) ==
    /\ req[p].pc = "idle"
    /\ IF mw_initialized
       THEN /\ req' = [req EXCEPT ![p] =
                         [@ EXCEPT !.pc = "done", !.kind = "initialize",
                                   !.result = Returned(None)]]
            /\ UNCHANGED mw_initialized
       ELSE IF initialized
       THEN /\ req' = [req EXCEPT ![p] =
                         [Logged(@, "AuthMiddleware initialized")
                             EXCEPT !.pc = "done", !.kind = "initialize",
                                    !.result = Returned(None)]]
            /\ mw_initialized' = TRUE
       ELSE /\ req' = [req EXCEPT ![p] =
                         [@ EXCEPT !.pc = "create_pool", !.kind = "initialize"]]
            /\ UNCHANGED mw_initialized
    /\ UNCHANGED <<now, api_keys, initialized, pool, current_user, pools>>
    /\ UNCHANGED <<rbac_vars, pred_call>>

\* auth_middleware.py:33-35, auth_manager.py:35-37 and database_client.py:
\* 63-65: close is called; it returns at once unless the three tests lead to
\* the await of pool.close()
CallClose(p) ==
    /\ req[p].pc = "idle"
    /\ IF ~mw_initialized
       THEN /\ req' = [req EXCEPT ![p] =
                         [@ EXCEPT !.pc = "done", !.kind = "close",
                                   !.result = Returned(None)]]
            /\ UNCHANGED <<initialized, mw_initialized>>
       ELSE IF ~initialized
       THEN /\ req' = [req EXCEPT ![p] =
                         [Logged(@, "AuthMiddleware closed")
                             EXCEPT !.pc = "done", !.kind = "close",
                                    !.result = Returned(None)]]
            /\ mw_initialized' = FALSE
            /\ UNCHANGED initialized
       ELSE IF pool = 0
       THEN /\ req' = [req EXCEPT ![p] =
                         [Logged(@, "AuthMiddleware closed")
                             EXCEPT !.pc = "done", !.kind = "close",
                                    !.result = Returned(None)]]
            /\ initialized' = FALSE
            /\ mw_initialized' = FALSE
       ELSE /\ req' = [req EXCEPT ![p] = [@ EXCEPT !.pc = "pool_close", !.kind = "close"]]
            /\ UNCHANGED <<initialized, mw_initialized>>
    /\ UNCHANGED <<now, api_keys, pool, current_user, pools>>
    /\ UNCHANGED <<rbac_vars, pred_call>>

\* database_client.py:66-67, auth_manager.py:38-40 and auth_middleware.py:
\* 36-38: pool.close() returns, the pool self.pool names is closed and both
\* flags are cleared
PoolClose(p) ==
    /\ req[p].pc = "pool_close"
    /\ pools' = [pools EXCEPT ![pool].open = FALSE]
    /\ initialized' = FALSE
    /\ mw_initialized' = FALSE
    /\ req' = [req EXCEPT ![p] =
                 [Logged(StoreCalled(@), "AuthMiddleware closed")
                     EXCEPT !.pc = "done", !.result = Returned(None)]]
    /\ UNCHANGED <<now, api_keys, pool, current_user>>
    /\ UNCHANGED <<rbac_vars, pred_call>>

\* validate_request is called with some credentials
CallValidateRequest(p) ==
    /\ req[p].pc = "idle"
    /\ \E headers \in AfterHeaderSets :
          Start(p, "validate_request", headers, <<>>, {}, {})

\* The call has returned to the caller, which goes on to its next call
NextCall(p) ==
    /\ Done(p)
    /\ req' = [req EXCEPT ![p] = IdleRequest]
    /\ UNCHANGED <<now, api_keys, initialized, pool, current_user, pools, mw_initialized>>
    /\ UNCHANGED <<rbac_vars, pred_call>>

InitLife ==
    InitAuth({KeyTable(KeyRow("active", NoDict, TheSecret, 9, <<"read">>))}, {0})

NextLife ==
    \/ CallInitialize("r1")
    \/ CallValidateRequest("r1")
    \/ CallClose("r1")
    \/ PoolClose("r1")
    \/ NextCall("r1")
    \/ CheckInitialized("r1")
    \/ CreatePool("r1")
    \/ TryJwt("r1")
    \/ JwtUserLookup("r1")
    \/ ValidateKey("r1")
    \/ KeyLookup("r1")
    \/ KeyTouch("r1")
    \/ KeyOwner("r1")

SpecLife == InitLife /\ [][NextLife]_vars

\* close() has returned to p
CloseReturned(p) ==
    Done(p) /\ req[p].kind = "close"

\* C30: for every sequence of initialize, validate_request and close calls
\* on an AuthMiddleware, once close() has returned no connection pool created
\* through that middleware remains open.
C30_NoPoolOpenAfterClose ==
    \A p \in Callers :
        CloseReturned(p) => \A i \in 1..Len(pools) : ~pools[i].open

\* What holds: a close() that found the middleware's own flag set leaves no
\* pool open, and at no time is more than one pool open
CloseOfInitializedMiddlewareCloses ==
    /\ \A p \in Callers :
          (CloseReturned(p) /\ "AuthMiddleware closed" \in req[p].log)
              => \A i \in 1..Len(pools) : ~pools[i].open
    /\ \A i \in 1..Len(pools) : pools[i].open => i = pool

\* validate_request created the pool, initialize was never called, and
\* close() has returned with the pool still open
PoolOpenAfterClose ==
    /\ CloseReturned("r1")
    /\ ~mw_initialized
    /\ initialized
    /\ pools = <<NewPool>>
    /\ req["r1"].log = {}

(***************************************************************************)
(* The same request under two letter-casings of its header names           *)
(***************************************************************************)

\* str.lower() on the header names the model uses
LowerName(name) ==
    CASE name \in {"Authorization", "AUTHORIZATION", "authorization"} -> "authorization"
      [] name \in {"X-API-Key", "X-Api-Key", "x-api-key"} -> "x-api-key"
      [] OTHER -> name

\* The letter-casings of a header name
Casings(name) ==
    IF LowerName(name) = "authorization"
    THEN {"Authorization", "AUTHORIZATION", "authorization"}
    ELSE {"X-API-Key", "X-Api-Key", "x-api-key"}

\* The headers with their names in lower case
Lowered(headers) ==
    {[name |-> LowerName(h.name), value |-> h.value] : h \in headers}

\* The requests of the runs: alice's token, carol's key in either header
CaseHeaderSets ==
    {{[name |-> "Authorization", value |-> Bearer(GoodToken(7, "", "admin", <<"read">>))]},
     {[name |-> "X-API-Key", value |-> Bare(<<"k", ":", "s">>)]},
     {[name |-> "Authorization", value |-> ApiKey(<<"k", ":", "s">>)]},
     {[name |-> "Authorization", value |-> Bearer(GoodToken(5, "", "admin", <<"read">>))],
      [name |-> "X-API-Key", value |-> Bare(<<"k", ":", "s">>)]}}

\* The header sets that carry the values of headers under some casing of
\* their names
Recasings(headers) ==
    {hs \in SUBSET {[name |-> n, value |-> h.value] : h \in headers,
                        n \in {"Authorization", "AUTHORIZATION", "authorization",
                               "X-API-Key", "X-Api-Key", "x-api-key"}} :
        /\ Lowered(hs) = Lowered(headers)
        /\ Cardinality(hs) = Cardinality(headers)}

\* authenticate_request is called with the usual casing of the names
CallCased ==
    /\ req["r1"].pc = "idle"
    /\ \E headers \in CaseHeaderSets :
          Start("r1", "authenticate_request", headers, <<>>, {}, {})

\* When that call has ended, authenticate_request is called with the same
\* values under another casing of the names
CallRecased ==
    /\ req["r1"].pc = "done"
    /\ req["r2"].pc = "idle"
    /\ \E headers \in Recasings(req["r1"].headers) :
          Start("r2", "authenticate_request", headers, <<>>, {}, {})

InitCase ==
    InitAuth({KeyTable(KeyRow("active", NoDict, TheSecret, 9, <<"read">>))}, {0})

NextCase ==
    \/ CallCased
    \/ CallRecased
    \/ \E p \in Callers :
          \/ CheckInitialized(p)
          \/ CreatePool(p)
          \/ TryJwt(p)
          \/ JwtUserLookup(p)
          \/ ValidateKey(p)
          \/ KeyLookup(p)
          \/ KeyTouch(p)
          \/ KeyOwner(p)

SpecCase == InitCase /\ [][NextCase]_vars

\* Both calls have ended and the store answered every operation of both
BothAnswered ==
    /\ req["r1"].pc = "done" /\ req["r2"].pc = "done"
    /\ req["r1"].store_errors = 0 /\ req["r2"].store_errors = 0

\* C24: authenticate_request gives the same result for every letter-casing
\* of the header names Authorization and X-API-Key carrying the same values.
C24_HeaderNamesCaseInsensitive ==
    (BothAnswered /\ Lowered(req["r1"].headers) = Lowered(req["r2"].headers))
        => req["r1"].result = req["r2"].result

\* What holds of it: the results agree when the second request spells its
\* names 'Authorization' or 'authorization', and 'X-API-Key'
RecognisedCasingsAgree ==
    (/\ BothAnswered
     /\ Lowered(req["r1"].headers) = Lowered(req["r2"].headers)
     /\ \A h \in req["r2"].headers : h.name \in {"Authorization", "authorization", "X-API-Key"})
        => req["r1"].result = req["r2"].result

\* A valid key under 'x-api-key' was not seen: the second request ended
\* without a principal, the first with carol's
LowerCaseKeyHeaderIgnored ==
    /\ BothAnswered
    /\ \E h \in req["r2"].headers : h.name = "x-api-key"
    /\ req["r1"].result # Returned(NoDict)
    /\ req["r2"].result = Returned(NoDict)
    /\ req["r2"].key_validator_calls = 0

(***************************************************************************)
(* DatabaseClient: the connections of its operations                       *)
(***************************************************************************)

\* The store operations in flight at most
MaxInFlight == 11

\* The operations that take a connection with 'async with self.pool.acquire()'
StoreOperations ==
    {"get_user_by_id", "get_api_key_by_key_id", "update_api_key_last_used", "health_check"}

\* How the body of the 'async with' ends
Outcomes ==
    {"success", "query failure", "cancelled"}

\* Whether the operation gives its connection back when its body ends that
\* way: the 'async with' of each operation does, however the body ends
connection_released(op, outcome) ==
    TRUE

\* The operations in flight that have acquired a connection
RECURSIVE InFlight(_)
InFlight(ps) ==
    IF ps = <<>> THEN 0 ELSE Head(ps).inflight + InFlight(Tail(ps))

\* The connections handed out by the pools
RECURSIVE Held(_)
Held(ps) ==
    IF ps = <<>> THEN 0 ELSE Head(ps).held + Held(Tail(ps))

\* A store operation of some request passes its 'if not self.pool' and enters
\* its 'async with': the pool hands out a connection, which an asyncpg pool
\* does while fewer than max_size are out (the operation waits otherwise)
AcquireConnection ==
    /\ pool # 0
    /\ pools[pool].open
    /\ pools[pool].held < max_size
    /\ InFlight(pools) < MaxInFlight
    /\ \E op \in StoreOperations :
          pools' = [pools EXCEPT ![pool].held = @ + 1, ![pool].inflight = @ + 1]
    /\ UNCHANGED <<now, api_keys, initialized, pool, current_user, req, mw_initialized>>
    /\ UNCHANGED <<rbac_vars, pred_call>>

\* The body of the 'async with' of a store operation ends and the operation
\* returns (the query failure is logged, the cancellation propagates)
EndOperation ==
    /\ \E i \in 1..Len(pools), op \in StoreOperations, outcome \in Outcomes :
          /\ pools[i].inflight > 0
          /\ pools' = [pools EXCEPT ![i].inflight = @ - 1,
                                    ![i].held = IF connection_released(op, outcome)
                                                THEN @ - 1 ELSE @]
    /\ UNCHANGED <<now, api_keys, initialized, pool, current_user, req, mw_initialized>>
    /\ UNCHANGED <<rbac_vars, pred_call>>

\* authenticate_request is called without credentials
CallWithoutCredentials(p) ==
    /\ req[p].pc = "idle"
    /\ Start(p, "authenticate_request", {}, <<>>, {}, {})

InitStore ==
    InitAuth({NoKeys}, {0})

\* Two requests arrive at a fresh AuthManager while the store operations of
\* other requests come and go
NextStore ==
    \/ \E p \in Callers :
          \/ CallWithoutCredentials(p)
          \/ CheckInitialized(p)
          \/ CreatePool(p)
          \/ TryJwt(p)
          \/ ValidateKey(p)
    \/ AcquireConnection
    \/ EndOperation

SpecStore == InitStore /\ [][NextStore]_vars

\* C21: in every reachable state the connections held by the store
\* operations in flight do not exceed the pool maximum, and every store
\* operation has released the connection it acquired by the time it ends,
\* by success, by a query failure or by cancellation.
C21_ConnectionsBoundedAndReleased ==
    /\ Held(pools) <= max_size
    /\ \A i \in 1..Len(pools) : pools[i].held = pools[i].inflight

\* What holds of it: each pool hands out at most max_size connections, and
\* only operations in flight hold one
PoolBoundedAndReleased ==
    \A i \in 1..Len(pools) :
        /\ pools[i].held <= max_size
        /\ pools[i].held = pools[i].inflight

\* C29: if several authenticate_request calls start concurrently on an
\* AuthManager that is not yet initialized, the connection pool is created
\* exactly once: no second pool is created, and no pool is created and then
\* overwritten without having been closed.
C29_PoolCreatedOnce ==
    /\ Len(pools) <= 1
    /\ \A i \in 1..Len(pools) : i # pool => ~pools[i].open

\* What holds: a call creates at most one pool, and only a call that read
\* _initialized as False creates one
OnePoolPerUninitializedCall ==
    /\ Len(pools) <= Cardinality({p \in Callers :
                                    req[p].pc \notin {"idle", "authenticate", "create_pool"}})
    /\ Len(pools) = Cardinality({p \in Callers : req[p].store_calls > 0
                                                  /\ req[p].store_errors = 0})

\* Both calls read _initialized as False before either pool was there: the
\* second pool has replaced the first, which is still open
FirstPoolOverwrittenOpen ==
    /\ Len(pools) = 2
    /\ pool = 2
    /\ pools[1].open
    /\ \A p \in Callers : Done(p) /\ req[p].result = Returned(NoDict)

(***************************************************************************)
(* RBACManager on its own                                                  *)
(***************************************************************************)

InitRBAC ==
    /\ roles = DefaultRoles
    /\ rbac_call = NoCall
    /\ now = 0
    /\ api_keys = NoKeys
    /\ initialized = FALSE
    /\ pool = 0
    /\ pools = <<>>
    /\ mw_initialized = FALSE
    /\ current_user = NoDict
    /\ req = [p \in Callers |-> IdleRequest]
    /\ pred_call = NoCall

NextRBAC ==
    \/ AddRole /\ UNCHANGED <<auth_vars, pred_call>>
    \/ RemoveRole /\ UNCHANGED <<auth_vars, pred_call>>
    \/ AccessCheck /\ UNCHANGED <<auth_vars, pred_call>>

SpecRBAC == InitRBAC /\ [][NextRBAC]_vars

\* Whether the last call's document satisfies the last call's filter
FilterAdmits ==
    EvalFilter(rbac_call.filter.value, serialize_metadata_for_milvus(rbac_call.doc))

\* The last call had a role list with a catalogued role
RBACCalled ==
    /\ rbac_call # NoCall
    /\ rbac_call.can_access # Raised("ValueError")

\* C1: for every catalog, role list with a catalogued role, department list,
\* user id and schema-conforming document, can_access_document is true exactly
\* when the document satisfies build_milvus_filter's expression.
C1_AccessIffFilter ==
    RBACCalled => (rbac_call.can_access = Returned(TRUE) <=> FilterAdmits)

\* The elements of a list
Elements(l) ==
    {l[i] : i \in 1..Len(l)}

\* C12: for a role list with at least one catalogued role, can_access_document
\* returns true exactly when the document's security_level is at most the
\* maximum level of the user's catalogued roles, departments contains '*' or
\* the document's department, allowed_roles is empty or intersects the user's
\* roles, and allowed_users is empty or contains user_id.
C12_AccessIffFourConditions ==
    (rbac_call # NoCall /\ \E n \in Elements(rbac_call.user_roles) : n \in DOMAIN roles)
        => LET doc == rbac_call.doc
               levels == {roles[n].level : n \in Elements(rbac_call.user_roles) \cap DOMAIN roles}
           IN  /\ rbac_call.can_access \in {Returned(TRUE), Returned(FALSE)}
               /\ rbac_call.can_access = Returned(TRUE)
                    <=> /\ \E l \in levels : doc.security_level <= l
                        /\ \/ "*" \in Elements(rbac_call.user_departments)
                           \/ doc.department \in Elements(rbac_call.user_departments)
                        /\ \/ doc.allowed_roles = <<>>
                           \/ Elements(doc.allowed_roles) \cap Elements(rbac_call.user_roles) # {}
                        /\ \/ doc.allowed_users = <<>>
                           \/ rbac_call.user_id \in Elements(doc.allowed_users)

\* A level 3 document restricted to engineers and admins and to two users
\* has been granted to a user holding viewer (raised to level 3) and
\* engineer, through the department list
C12_Witness ==
    /\ RBACCalled
    /\ rbac_call.user_roles = <<"viewer", "engineer">>
    /\ roles["viewer"].level = 3
    /\ rbac_call.user_departments = <<"engineering", "general">>
    /\ rbac_call.doc.security_level = 3
    /\ rbac_call.doc.allowed_roles = <<"engineer", "admin">>
    /\ rbac_call.doc.allowed_users = <<"u1", "u2">>
    /\ rbac_call.can_access = Returned(TRUE)

\* C25: can_access_document returns a boolean and build_milvus_filter returns
\* a filter for every user role list, including lists none of whose roles is
\* in the catalog and lists whose only role was removed by remove_role;
\* neither operation fails.
C25_RoleListsNeverFail ==
    rbac_call # NoCall
        => /\ rbac_call.can_access \in {Returned(TRUE), Returned(FALSE)}
           /\ rbac_call.filter # Raised("ValueError")

\* What holds of it: the two operations fail together, with ValueError, and
\* exactly for the role lists without a role of the catalog
FailsWithoutCataloguedRole ==
    rbac_call # NoCall
        => LET catalogued == Elements(rbac_call.user_roles) \cap DOMAIN roles
           IN  /\ rbac_call.can_access = Raised("ValueError") <=> catalogued = {}
               /\ rbac_call.filter = Raised("ValueError") <=> catalogued = {}
               /\ catalogued # {}
                    => rbac_call.can_access \in {Returned(TRUE), Returned(FALSE)}

\* The default catalog was asked about a user whose only role is engineer,
\* and both operations raised
EngineerAloneRaised ==
    /\ rbac_call # NoCall
    /\ roles = DefaultRoles
    /\ rbac_call.user_roles = <<"engineer">>
    /\ rbac_call.can_access = Raised("ValueError")
    /\ rbac_call.filter = Raised("ValueError")

====
